---- MODULE Spec2Model ----
(***************************************************************************)
(* Model of the computational core of grids-on-the-complex-plane:          *)
(*   complex_graph/complex_grid.py  - serpentine grid paths and            *)
(*                                    ComplexGridArray                     *)
(*   complex_graph/functions.py     - FunctionZtoZ and multiplies_var      *)
(*                                                                         *)
(*   complex_graph/complex_animation.py, qtapp.py, tkapp.py               *)
(*                                  - the paths that replace the grid of   *)
(*                                    a ComplexAnimator                    *)
(*   complex_graph/special_functions.py - EtaFunction and ZetaFunction     *)
(*   complex_mapper.py              - ComplexGridPlotFormat and            *)
(*                                    complex_grid_plot                    *)
(*                                                                         *)
(* Seven specifications share the module.  SpecGen drives the two grid     *)
(* generators, SpecGrid a ComplexGridArray, SpecFunc a FunctionZtoZ,       *)
(* SpecMult the function multiplies_var, SpecAnim a ComplexAnimator and    *)
(* the grids it is given, SpecZeta an EtaFunction or ZetaFunction and the  *)
(* calls running on it, SpecPlot a ComplexGridPlotFormat and one           *)
(* complex_grid_plot.                                                      *)
(***************************************************************************)
EXTENDS Integers, Sequences, FiniteSets, TLC

VARIABLES
    call,      \* the last call of a grid generator: its arguments and result
    grid,      \* the ComplexGridArray object g (kind "none" before it is built)
    copy,      \* the object last returned by g.get_copy()
    fcall,     \* the arguments of the FunctionZtoZ(...) call
    fobj,      \* the FunctionZtoZ object the caller holds
    ferr,      \* the exception FunctionZtoZ(...) raised, "" if none
    fcompiled, \* how many times lambdify has run
    fresult,   \* the results of the last calls of the object
    fhist,     \* the derivative() / antiderivative() calls made so far
    mcall,     \* a call of multiplies_var: its arguments and result
    heap,      \* every ComplexGridArray instance created so far, by reference
    born,      \* history: each instance as its constructor left it
    ani,       \* the ComplexAnimator and the references the windows hold
    req,       \* the last request made of the animator and its outcome
    numba,     \* NUMBA_IMPORTED: whether "from numba import ..." succeeded
    engine,    \* the EtaFunction or ZetaFunction object
    threads,   \* the evaluation calls on the engine: position, locals, result
    pfmt,      \* the ComplexGridPlotFormat object
    plot       \* what complex_grid_plot has drawn

gridVars == <<call, grid, copy>>
funcVars == <<fcall, fobj, ferr, fcompiled, fresult, fhist>>
animVars == <<heap, born, ani, req>>
zetaVars == <<numba, engine, threads>>
plotVars == <<pfmt, plot>>
restVars == <<animVars, zetaVars, plotVars>>
vars == <<call, grid, copy, fcall, fobj, ferr, fcompiled, fresult, fhist, mcall, heap, born, ani, req, numba, engine, threads, pfmt, plot>>

(***************************************************************************)
(* Floating point.  Python floats and numpy float64 are IEEE-754 binary    *)
(* numbers rounded to nearest, ties to even.  The model keeps the          *)
(* rounding and shortens the format: a float is an integer count k of      *)
(* quanta 2^-FracBits, and is representable when k = m * 2^e with          *)
(* |m| < 2^MantBits and e >= 0 (gradual underflow below 2^MantBits).       *)
(***************************************************************************)
MantBits == 4
FracBits == 6

Pow2(n) == 2 ^ n

Unit == Pow2(FracBits)

Abs(k) == IF k < 0 THEN -k ELSE k

\* Round-half-even of the non-negative rational p/q to an integer.
RoundHalfEven(p, q) ==
    LET fl == p \div q
        r2 == 2 * (p % q)
    IN  IF r2 < q THEN fl
        ELSE IF r2 > q THEN fl + 1
        ELSE IF fl % 2 = 0 THEN fl ELSE fl + 1

\* The exponent e >= 0 of the binade holding p/q: the least e with p/q < 2^(MantBits+e).
RECURSIVE Binade(_, _, _)
Binade(p, q, e) ==
    IF p < q * Pow2(MantBits + e) THEN e ELSE Binade(p, q, e + 1)

\* The float nearest to n/d quanta (d > 0).
Round(n, d) ==
    LET p == Abs(n)
        e == Binade(p, d, 0)
        m == RoundHalfEven(p, d * Pow2(e))
    IN  (IF n < 0 THEN -1 ELSE 1) * m * Pow2(e)

FromInt(i) == Round(i * Unit, 1)
FAdd(a, b) == Round(a + b, 1)
FSub(a, b) == Round(a - b, 1)
FMul(a, b) == Round(a * b, Unit)
FDiv(a, b) == IF b < 0 THEN Round(-(a * Unit), -b) ELSE Round(a * Unit, b)

\* A complex number x + 1.0j*y, kept as its two float parts.
Complex(x, y) == [re |-> x, im |-> y]

(***************************************************************************)
(* numpy helpers                                                           *)
(***************************************************************************)
\* np.linspace(start, stop, num) with endpoint=True: step = (stop-start)/(num-1),
\* y[j] = j*step + start (j/div*delta + start when the step is 0), and the
\* last sample is overwritten with stop; one sample is start alone.
linspace(start, stop, num) ==
    LET delta == FSub(stop, start)
        div   == FromInt(num - 1)
        step  == FDiv(delta, div)
    IN  [j \in 1..num |->
            IF num = 1 THEN start
            ELSE IF j = num THEN stop
            ELSE IF step # 0 THEN FAdd(FMul(FromInt(j - 1), step), start)
            ELSE FAdd(FMul(FDiv(FromInt(j - 1), div), delta), start)]

\* np.ones([num]) * v
ones(num, v) == [j \in 1..num |-> FMul(FromInt(1), v)]

\* np.flip(a, 0)
flip(a) == [j \in 1..Len(a) |-> a[Len(a) + 1 - j]]

(***************************************************************************)
(* complex_grid.py: the grid generators                                    *)
(***************************************************************************)
Path(x, y) == [x |-> x, y |-> y]

\* The loop of _horizontal_grid_array (lines 27-36), from iteration i on.
RECURSIVE HorizontalLoop(_, _, _, _, _)
HorizontalLoop(i, n_lines, c, acc, offset_from_centre) ==
    IF i >= n_lines THEN acc
    ELSE
        LET line_y == FAdd(FMul(c.grid_spacing, FromInt(i)), c.y0)
            lx == IF i % 2 = 0 THEN c.x_horizontal ELSE c.x_horizontal_flip
            ly == [j \in 1..Len(c.y_horizontal) |->
                      FMul((IF i % 2 = 0 THEN c.y_horizontal
                                         ELSE c.y_horizontal_flip)[j], line_y)]
            cx == [j \in 1..Len(c.x_vertical) |->
                      FMul(c.x_vertical[j], FAdd(offset_from_centre, c.centre))]
            cy == [j \in 1..Len(c.y_vertical) |-> FAdd(c.y_vertical[j], line_y)]
        IN  HorizontalLoop(i + 1, n_lines, c,
                           Path(acc.x \o lx \o cx, acc.y \o ly \o cy),
                           -offset_from_centre)

\* The line appended after the loop (lines 37-38).
HorizontalEnd(looped, x_horizontal, y_horizontal, last_y) ==
    Path(looped.x \o x_horizontal,
         looped.y \o [j \in 1..Len(y_horizontal) |->
                         FMul(y_horizontal[j], last_y)])

\* The constants of the loop (lines 15-26).
HorizontalConstants(x0, y0, w, h, n_lines, x_horizontal, y_horizontal, x_vertical, y_vertical) ==
    [x0 |-> x0, y0 |-> y0,
     x_horizontal |-> x_horizontal,
     y_horizontal |-> y_horizontal,
     x_vertical |-> x_vertical,
     y_vertical |-> y_vertical,
     x_horizontal_flip |-> flip(x_horizontal),
     y_horizontal_flip |-> flip(y_horizontal),
     centre |-> FAdd(FDiv(w, FromInt(2)), x0),
     grid_spacing |-> FDiv(h, FromInt(n_lines))]

HorizontalFrom(c, w, n_lines) ==
    HorizontalEnd(HorizontalLoop(0, n_lines, c, Path(<<>>, <<>>),
                                 FDiv(w, FromInt(2))),
                  c.x_horizontal, c.y_horizontal,
                  FAdd(FMul(c.grid_spacing, FromInt(n_lines)), c.y0))

_horizontal_grid_array(x0, y0, w, h, n_points_per_line, n_lines) ==
    HorizontalFrom(
        HorizontalConstants(x0, y0, w, h, n_lines,
            linspace(x0, FAdd(x0, w), n_points_per_line),
            ones(n_points_per_line, FromInt(1)),
            ones(n_points_per_line \div n_lines, FromInt(1)),
            linspace(0, FDiv(h, FromInt(n_lines)),
                     n_points_per_line \div n_lines)),
        w, n_lines)

\* The loop of _vertical_grid_array (lines 64-73), from iteration i on.
RECURSIVE VerticalLoop(_, _, _, _, _)
VerticalLoop(i, n_lines, c, acc, offset_from_centre) ==
    IF i >= n_lines THEN acc
    ELSE
        LET line_x == FAdd(FMul(c.grid_spacing, FromInt(i)), c.x0)
            lx == [j \in 1..Len(c.x_vertical) |->
                      FMul((IF i % 2 = 0 THEN c.x_vertical
                                         ELSE c.x_vertical_flip)[j], line_x)]
            ly == IF i % 2 = 0 THEN c.y_vertical ELSE c.y_vertical_flip
            cy == [j \in 1..Len(c.y_horizontal) |->
                      FMul(c.y_horizontal[j], FAdd(offset_from_centre, c.centre))]
            cx == [j \in 1..Len(c.x_horizontal) |-> FAdd(c.x_horizontal[j], line_x)]
        IN  VerticalLoop(i + 1, n_lines, c,
                         Path(acc.x \o lx \o cx, acc.y \o ly \o cy),
                         -offset_from_centre)

\* The line appended after the loop (lines 74-75).
VerticalEnd(looped, x_vertical, y_vertical, last_x) ==
    Path(looped.x \o [j \in 1..Len(x_vertical) |->
                         FMul(x_vertical[j], last_x)],
         looped.y \o y_vertical)

\* The constants of the loop (lines 52-63).
VerticalConstants(x0, y0, w, h, n_lines, x_vertical, y_vertical, x_horizontal, y_horizontal) ==
    [x0 |-> x0, y0 |-> y0,
     x_vertical |-> x_vertical,
     y_vertical |-> y_vertical,
     x_horizontal |-> x_horizontal,
     y_horizontal |-> y_horizontal,
     x_vertical_flip |-> flip(x_vertical),
     y_vertical_flip |-> flip(y_vertical),
     centre |-> FAdd(FDiv(h, FromInt(2)), y0),
     grid_spacing |-> FDiv(w, FromInt(n_lines))]

VerticalFrom(c, h, n_lines) ==
    VerticalEnd(VerticalLoop(0, n_lines, c, Path(<<>>, <<>>),
                             FDiv(h, FromInt(2))),
                c.x_vertical, c.y_vertical,
                FAdd(FMul(c.grid_spacing, FromInt(n_lines)), c.x0))

\* The mutation of _vertical_grid_array that keeps the axes of the horizontal
\* family.
_vertical_grid_array_unswapped(x0, y0, w, h, n_points_per_line, n_lines) ==
    _horizontal_grid_array(x0, y0, w, h, n_points_per_line, n_lines)

_vertical_grid_array(x0, y0, w, h, n_points_per_line, n_lines) ==
    VerticalFrom(
        VerticalConstants(x0, y0, w, h, n_lines,
            ones(n_points_per_line, FromInt(1)),
            linspace(y0, FAdd(y0, h), n_points_per_line),
            linspace(0, FDiv(w, FromInt(n_lines)),
                     n_points_per_line \div n_lines),
            ones(n_points_per_line \div n_lines, FromInt(1))),
        h, n_lines)

\* grid_array(grid_origin, grid_dimensions, n_points_per_line,
\*            n_vertical_lines, n_horizontal_lines): the horizontal family
\* followed by the reversed vertical family.
JoinedPath(horizontal, vertical) ==
    Path(horizontal.x \o flip(vertical.x), horizontal.y \o flip(vertical.y))

grid_array(x0, y0, w, h, n_points_per_line, n_vertical_lines, n_horizontal_lines) ==
    JoinedPath(_horizontal_grid_array(x0, y0, w, h, n_points_per_line,
                                      n_horizontal_lines),
               _vertical_grid_array(x0, y0, w, h, n_points_per_line,
                                    n_vertical_lines))

(***************************************************************************)
(* complex_grid.py: ComplexGridArray                                       *)
(***************************************************************************)
NoGrid == [kind |-> "none"]

\* x + 1.0j*y over two arrays of the same length.
ComplexArray(x, y) == [j \in 1..Len(x) |-> Complex(x[j], y[j])]

\* ComplexGridArray.__init__(dimensions, n_points_per_line,
\*                           n_horizontal_lines, n_vertical_lines)
ComplexPath(p) == ComplexArray(p.x, p.y)

NewComplexGridArray(dimensions, n_points_per_line, n_horizontal_lines, n_vertical_lines) ==
    [kind |-> "grid",
     _horizontal_lines |->
         ComplexPath(_horizontal_grid_array(
             dimensions[1], dimensions[2],
             FSub(dimensions[3], dimensions[1]),
             FSub(dimensions[4], dimensions[2]),
             n_points_per_line, n_horizontal_lines)),
     _vertical_lines |->
         ComplexPath(_vertical_grid_array(
             dimensions[1], dimensions[2],
             FSub(dimensions[3], dimensions[1]),
             FSub(dimensions[4], dimensions[2]),
             n_points_per_line, n_vertical_lines)),
     _y_max |-> ComplexArray(linspace(dimensions[1], dimensions[3],
                                      n_points_per_line),
                             ones(n_points_per_line, dimensions[4])),
     _y_min |-> ComplexArray(linspace(dimensions[1], dimensions[3],
                                      n_points_per_line),
                             ones(n_points_per_line, dimensions[2])),
     _x_min |-> ComplexArray(ones(n_points_per_line, dimensions[1]),
                             linspace(dimensions[2], dimensions[4],
                                      n_points_per_line)),
     _x_max |-> ComplexArray(ones(n_points_per_line, dimensions[3]),
                             linspace(dimensions[2], dimensions[4],
                                      n_points_per_line)),
     _n_vertical_lines |-> n_vertical_lines,
     _n_horizontal_lines |-> n_horizontal_lines]

get_xlim(g) == <<g._x_min[1].re, g._x_max[1].re>>
get_ylim(g) == <<g._y_min[1].im, g._y_max[1].im>>
get_number_of_points_per_line(g) == Len(g._x_min)
get_number_of_vertical_lines(g) == g._n_vertical_lines
get_number_of_horizontal_lines(g) == g._n_horizontal_lines
get_horizontal_lines(g) == g._horizontal_lines
get_vertical_lines(g) == g._vertical_lines

\* The mutation of get_boundaries that lists the edges as the constructor
\* assigns them (y_max, y_min, x_min, x_max).
get_boundaries_as_assigned(g) == <<g._y_max, g._y_min, g._x_min, g._x_max>>

get_boundaries(g) == <<g._x_min, g._y_min, g._x_max, g._y_max>>

\* The mutation of get_copy that passes the two line counts in the wrong order.
get_copy_swapped(g) ==
    LET xlim == get_xlim(g)
        ylim == get_ylim(g)
    IN  NewComplexGridArray(<<xlim[1], ylim[1], xlim[2], ylim[2]>>,
                            Len(g._x_min),
                            g._n_vertical_lines, g._n_horizontal_lines)

get_copy(g) ==
    LET xlim == get_xlim(g)
        ylim == get_ylim(g)
        dimensions == <<xlim[1], ylim[1], xlim[2], ylim[2]>>
    IN  NewComplexGridArray(dimensions,
                            Len(g._x_min),
                            g._n_horizontal_lines, g._n_vertical_lines)

(***************************************************************************)
(* sympy expressions.  An expression is a tree of nodes                    *)
(*   Num (a rational num/den), Sym (name), Fn (name, one argument),        *)
(*   Pow (base at pos 1, exponent at pos 2), Add and Mul (a set of         *)
(*   arguments, all at pos 0: sympy keeps them canonical and commutative). *)
(* MkAdd, MkMul and MkPow are the evaluating constructors behind +, * and  *)
(* ** on sympy objects: they flatten, fold numbers, collect like terms and *)
(* combine powers of one base.                                             *)
(***************************************************************************)
RECURSIVE Gcd(_, _)
Gcd(a, b) == IF b = 0 THEN a ELSE Gcd(b, a % b)

Node(op, name, num, den, args) ==
    [op |-> op, name |-> name, num |-> num, den |-> den, args |-> args]

Arg(pos, node) == [pos |-> pos, node |-> node]

Rational(n, d) ==
    LET g == Gcd(Abs(n), Abs(d))
        sgn == IF d < 0 THEN -1 ELSE 1
    IN  Node("Num", "", (sgn * n) \div g, (sgn * d) \div g, {})

Integer(n) == Node("Num", "", n, 1, {})
Zero == Integer(0)
One == Integer(1)
Symbol(name) == Node("Sym", name, 0, 1, {})
Function(name, a) == Node("Fn", name, 0, 1, {Arg(1, a)})
RawPow(b, e) == Node("Pow", "", 0, 1, {Arg(1, b), Arg(2, e)})
RawAdd(S) == Node("Add", "", 0, 1, {Arg(0, t) : t \in S})
RawMul(S) == Node("Mul", "", 0, 1, {Arg(0, t) : t \in S})

\* expr.args, as a set
Args(e) == {a.node : a \in e.args}
Base(e) == (CHOOSE a \in e.args : a.pos = 1).node
Exponent(e) == (CHOOSE a \in e.args : a.pos = 2).node

IsNum(e) == e.op = "Num"
IsInteger(e) == e.op = "Num" /\ e.den = 1

QAdd(a, b) == Rational(a.num * b.den + b.num * a.den, a.den * b.den)
QMul(a, b) == Rational(a.num * b.num, a.den * b.den)

RECURSIVE QPow(_, _)
QPow(a, n) ==
    IF n = 0 THEN One
    ELSE IF n < 0 THEN QPow(Rational(a.den, a.num), -n)
    ELSE QMul(a, QPow(a, n - 1))

RECURSIVE SetToSeq(_)
SetToSeq(S) ==
    IF S = {} THEN <<>>
    ELSE LET x == CHOOSE x \in S : TRUE IN <<x>> \o SetToSeq(S \ {x})

Range(seq) == {seq[i] : i \in 1..Len(seq)}

\* The arguments of a sequence of operands with nested nodes of class op
\* spliced in (Add(a, Add(b, c)) is Add(a, b, c)).
RECURSIVE Flatten(_, _)
Flatten(op, seq) ==
    IF seq = <<>> THEN <<>>
    ELSE (IF Head(seq).op = op THEN SetToSeq(Args(Head(seq))) ELSE <<Head(seq)>>)
         \o Flatten(op, Tail(seq))

\* A term as coefficient * rest (as_coeff_Mul).
Coeff(t) ==
    IF IsNum(t) THEN t
    ELSE IF t.op = "Mul" /\ \E k \in Args(t) : IsNum(k)
         THEN CHOOSE k \in Args(t) : IsNum(k)
         ELSE One

Rest(t) ==
    IF IsNum(t) THEN One
    ELSE IF t.op = "Mul" /\ \E k \in Args(t) : IsNum(k)
         THEN LET others == {k \in Args(t) : ~IsNum(k)}
              IN  IF Cardinality(others) = 1 THEN CHOOSE k \in others : TRUE
                  ELSE RawMul(others)
         ELSE t

\* A factor as base ** exponent (as_base_exp).
FactorBase(f) == IF f.op = "Pow" THEN Base(f) ELSE f
FactorExponent(f) == IF f.op = "Pow" THEN Exponent(f) ELSE One

RECURSIVE QSum(_)
QSum(seq) == IF seq = <<>> THEN Zero ELSE QAdd(Head(seq), QSum(Tail(seq)))

RECURSIVE QProduct(_)
QProduct(seq) == IF seq = <<>> THEN One ELSE QMul(Head(seq), QProduct(Tail(seq)))

\* coefficient * rest with the coefficient folded into the product
Scale(c, r) ==
    IF c = Zero THEN Zero
    ELSE IF r = One THEN c
    ELSE IF c = One THEN r
    ELSE RawMul({c} \cup (IF r.op = "Mul" THEN Args(r) ELSE {r}))

\* The sum of the coefficients of the terms of flat whose rest is r.
TermCoeff(flat, r) ==
    QSum([i \in 1..Len(flat) |->
             IF Rest(flat[i]) = r THEN Coeff(flat[i]) ELSE Zero])

\* Like terms collected; the terms whose coefficients cancel are dropped.
CollectTerms(flat) ==
    {Scale(TermCoeff(flat, r), r) : r \in {Rest(t) : t \in Range(flat)}} \ {Zero}

\* The node for a set of collected terms.
AddOf(kept) ==
    IF kept = {} THEN Zero
    ELSE IF Cardinality(kept) = 1 THEN CHOOSE t \in kept : TRUE
    ELSE RawAdd(kept)

\* Add(*terms)
MkAdd(terms) == AddOf(CollectTerms(Flatten("Add", terms)))

RECURSIVE MkMul(_), MkPow(_, _)

NotNum(f) == ~IsNum(f)

\* The exponents the factors of others give to the base b.
ExponentsOf(others, b) ==
    [i \in 1..Len(others) |->
        IF FactorBase(others[i]) = b THEN FactorExponent(others[i]) ELSE Zero]

\* Powers of one base combined; a base whose exponents cancel is dropped.
CombinePowers(others) ==
    {MkPow(b, MkAdd(ExponentsOf(others, b))) :
        b \in {FactorBase(f) : f \in Range(others)}} \ {One}

\* c * f for a number c and one factor f: a Rational coefficient is
\* distributed over a sum.
MulOne(c, f) ==
    IF c = One THEN f
    ELSE IF f.op = "Add"
         THEN MkAdd([i \in 1..Cardinality(Args(f)) |->
                       MkMul(<<c, SetToSeq(Args(f))[i]>>)])
    ELSE IF f.op = "Mul" THEN RawMul({c} \cup Args(f))
    ELSE RawMul({c, f})

\* The node for a numeric coefficient c and a set of combined powers.
MulOf(c, combined) ==
    IF c = Zero THEN Zero
    ELSE IF combined = {} THEN c
    ELSE IF Cardinality(combined) = 1 THEN MulOne(c, CHOOSE f \in combined : TRUE)
    ELSE RawMul((IF c = One THEN {} ELSE {c})
                \cup UNION {IF f.op = "Mul" THEN Args(f) ELSE {f} :
                            f \in combined})

MulFlat(flat) ==
    MulOf(QProduct(SelectSeq(flat, IsNum)), CombinePowers(SelectSeq(flat, NotNum)))

\* Mul(*factors)
MkMul(factors) == MulFlat(Flatten("Mul", factors))

\* Pow(b, e)
MkPow(b, e) ==
    IF e = Zero THEN One
    ELSE IF e = One THEN b
    ELSE IF b = One THEN One
    ELSE IF IsNum(b) /\ IsInteger(e) /\ (b # Zero \/ e.num > 0) THEN QPow(b, e.num)
    ELSE IF b.op = "Pow" /\ IsInteger(e)
         THEN MkPow(Base(b), MkMul(<<Exponent(b), e>>))
    ELSE IF b.op = "Mul" /\ IsInteger(e)
         THEN MkMul([i \in 1..Cardinality(Args(b)) |->
                        MkPow(SetToSeq(Args(b))[i], e)])
    ELSE RawPow(b, e)

\* e.free_symbols, as the set of their names
RECURSIVE free_symbols(_)
free_symbols(e) ==
    IF e.op = "Sym" THEN {e.name}
    ELSE UNION {free_symbols(k) : k \in Args(e)}

(***************************************************************************)
(* sympy.parsing.sympy_parser.parse_expr.  The text is its token sequence. *)
(* The parser follows Python's grammar: power binds tighter than a unary   *)
(* sign, which binds tighter than times and divide, which bind tighter     *)
(* than plus and minus.  Each operator is evaluated with the constructors  *)
(* above, as Python does on sympy objects.                                 *)
(***************************************************************************)
NumberValue == [n \in {"0", "1", "2", "3", "10"} |->
                   CASE n = "0" -> 0 [] n = "1" -> 1 [] n = "2" -> 2
                     [] n = "3" -> 3 [] n = "10" -> 10]

Operators == {"+", "-", "*", "/", "**", "(", ")"}

IsNumber(tok) == tok \in DOMAIN NumberValue
IsName(tok) == tok \notin Operators /\ ~IsNumber(tok)

Parsed(node, pos) == [ok |-> TRUE, node |-> node, pos |-> pos]
ParseFail == [ok |-> FALSE, node |-> Zero, pos |-> 0]

TokenIs(toks, i, tok) == i <= Len(toks) /\ toks[i] = tok

\* One grammar rule applied at token i; left is the operand already read
\* (used by the two left-to-right rules).
\*   atom:      NUMBER | NAME | NAME ( sum ) | ( sum )
\*   power:     atom, optionally followed by ** unary
\*   unary:     - unary | + unary | power
\*   term:      unary, then term_rest
\*   term_rest: any number of [times or divided-by] unary, left to right
\*   sum:       term, then sum_rest
\*   sum_rest:  any number of [plus or minus] term, left to right
RECURSIVE Parse(_, _, _, _)
Parse(rule, toks, left, i) ==
    CASE rule = "atom" ->
            IF i > Len(toks) THEN ParseFail
            ELSE IF IsNumber(toks[i])
                 THEN Parsed(Integer(NumberValue[toks[i]]), i + 1)
            ELSE IF toks[i] = "(" \/ (IsName(toks[i]) /\ TokenIs(toks, i + 1, "("))
                 THEN LET open == IF toks[i] = "(" THEN i ELSE i + 1
                          r == Parse("sum", toks, Zero, open + 1)
                      IN  IF r.ok /\ TokenIs(toks, r.pos, ")")
                          THEN Parsed(IF open = i THEN r.node
                                      ELSE Function(toks[i], r.node), r.pos + 1)
                          ELSE ParseFail
            ELSE IF IsName(toks[i]) THEN Parsed(Symbol(toks[i]), i + 1)
            ELSE ParseFail
      [] rule = "power" ->
            LET a == Parse("atom", toks, Zero, i)
            IN  IF a.ok /\ TokenIs(toks, a.pos, "**")
                THEN LET u == Parse("unary", toks, Zero, a.pos + 1)
                     IN  IF u.ok THEN Parsed(MkPow(a.node, u.node), u.pos)
                         ELSE ParseFail
                ELSE a
      [] rule = "unary" ->
            IF TokenIs(toks, i, "-") \/ TokenIs(toks, i, "+")
            THEN LET u == Parse("unary", toks, Zero, i + 1)
                 IN  IF ~u.ok THEN ParseFail
                     ELSE IF toks[i] = "+" THEN u
                     ELSE Parsed(MkMul(<<Integer(-1), u.node>>), u.pos)
            ELSE Parse("power", toks, Zero, i)
      [] rule \in {"term", "sum"} ->
            LET first == Parse(IF rule = "term" THEN "unary" ELSE "term",
                               toks, Zero, i)
            IN  IF first.ok
                THEN Parse(IF rule = "term" THEN "term_rest" ELSE "sum_rest",
                           toks, first.node, first.pos)
                ELSE ParseFail
      [] rule = "term_rest" ->
            IF TokenIs(toks, i, "*") \/ TokenIs(toks, i, "/")
            THEN LET r == Parse("unary", toks, Zero, i + 1)
                 IN  IF ~r.ok THEN ParseFail
                     ELSE Parse("term_rest", toks,
                                MkMul(<<left, IF toks[i] = "*" THEN r.node
                                              ELSE MkPow(r.node, Integer(-1))>>),
                                r.pos)
            ELSE Parsed(left, i)
      [] rule = "sum_rest" ->
            IF TokenIs(toks, i, "+") \/ TokenIs(toks, i, "-")
            THEN LET r == Parse("term", toks, Zero, i + 1)
                 IN  IF ~r.ok THEN ParseFail
                     ELSE Parse("sum_rest", toks,
                                MkAdd(<<left, IF toks[i] = "+" THEN r.node
                                              ELSE MkMul(<<Integer(-1), r.node>>)>>),
                                r.pos)
            ELSE Parsed(left, i)

\* parse_expr(function_name): the tree, or ok = FALSE for a SyntaxError
parse_expr(toks) ==
    LET r == Parse("sum", toks, Zero, 1)
    IN  IF r.ok /\ r.pos = Len(toks) + 1 THEN r ELSE ParseFail

(***************************************************************************)
(* sympy operations used by functions.py                                   *)
(***************************************************************************)
\* The nodes preorder_traversal(e) visits.
RECURSIVE Subnodes(_)
Subnodes(e) == {e} \cup UNION {Subnodes(k) : k \in Args(e)}

\* e.has(pattern): an Add or Mul pattern matches a node of its class whose
\* arguments include the pattern's (AssocOp._has_matcher); any other pattern
\* matches an equal node.
has(e, pattern) ==
    IF pattern.op \in {"Add", "Mul"}
    THEN \E n \in Subnodes(e) :
            /\ n.op = pattern.op
            /\ (n = pattern \/ Args(pattern) \subseteq Args(n))
    ELSE pattern \in Subnodes(e)

\* The summands of e (e itself when it is no sum).
Terms(e) == IF e.op = "Add" THEN Args(e) ELSE {e}

\* a * b with both sums multiplied out
Distribute(a, b) ==
    LET pairs == SetToSeq(Terms(a) \X Terms(b))
    IN  MkAdd([i \in 1..Len(pairs) |-> MkMul(<<pairs[i][1], pairs[i][2]>>)])

RECURSIVE DistributeAll(_, _)
DistributeAll(acc, factors) ==
    IF factors = <<>> THEN acc
    ELSE DistributeAll(Distribute(acc, Head(factors)), Tail(factors))

RECURSIVE DistributePower(_, _)
DistributePower(b, n) ==
    IF n = 0 THEN One ELSE Distribute(DistributePower(b, n - 1), b)

\* expand(e): products over sums and positive integer powers of sums are
\* multiplied out, at every depth (the hints mul and multinomial).
RECURSIVE expand(_)
expand(e) ==
    IF e.op \in {"Num", "Sym"} THEN e
    ELSE IF e.op = "Fn" THEN Function(e.name, expand(Base(e)))
    ELSE IF e.op = "Add" THEN
        LET ks == SetToSeq(Args(e))
        IN  MkAdd([i \in 1..Len(ks) |-> expand(ks[i])])
    ELSE IF e.op = "Mul" THEN
        LET ks == SetToSeq(Args(e))
        IN  DistributeAll(One, [i \in 1..Len(ks) |-> expand(ks[i])])
    ELSE
        LET b == expand(Base(e))
            x == expand(Exponent(e))
        IN  IF b.op = "Add" /\ IsInteger(x) /\ x.num >= 2
            THEN DistributePower(b, x.num)
            ELSE MkPow(b, x)

\* d/dx of the one-argument function name at u
FunctionDerivative(name, u) ==
    CASE name = "sin" -> Function("cos", u)
      [] name = "cos" -> MkMul(<<Integer(-1), Function("sin", u)>>)
      [] name = "sinh" -> Function("cosh", u)
      [] name = "cosh" -> Function("sinh", u)
      [] name = "exp" -> Function("exp", u)
      [] name = "log" -> MkPow(u, Integer(-1))
      [] OTHER -> Function("Derivative_" \o name, u)

\* diff(e, x)
RECURSIVE diff(_, _)
diff(e, x) ==
    IF e.op = "Num" THEN Zero
    ELSE IF e.op = "Sym" THEN (IF e = x THEN One ELSE Zero)
    ELSE IF e.op = "Fn" THEN
        MkMul(<<FunctionDerivative(e.name, Base(e)), diff(Base(e), x)>>)
    ELSE IF e.op = "Add" THEN
        LET ks == SetToSeq(Args(e))
        IN  MkAdd([i \in 1..Len(ks) |-> diff(ks[i], x)])
    ELSE IF e.op = "Mul" THEN
        LET ks == SetToSeq(Args(e))
        IN  MkAdd([i \in 1..Len(ks) |->
                      MkMul([j \in 1..Len(ks) |->
                                IF j = i THEN diff(ks[j], x) ELSE ks[j]])])
    ELSE
        LET b == Base(e)
            n == Exponent(e)
        IN  IF ~has(n, x)
            THEN MkMul(<<n, MkPow(b, MkAdd(<<n, Integer(-1)>>)), diff(b, x)>>)
            ELSE MkMul(<<e, MkAdd(<<MkMul(<<diff(n, x), Function("log", b)>>),
                                    MkMul(<<n, diff(b, x), MkPow(b, Integer(-1))>>)>>)>>)

\* A summand c * x**n with c free of x and n an integer other than -1.
IsMonomial(t, x) ==
    LET xs == {f \in (IF t.op = "Mul" THEN Args(t) ELSE {t}) : has(f, x)}
    IN  /\ Cardinality(xs) <= 1
        /\ \A f \in xs :
              \/ f = x
              \/ /\ f.op = "Pow"
                 /\ Base(f) = x
                 /\ IsInteger(Exponent(f))
                 /\ Exponent(f).num # -1

IsPolynomial(e, x) == \A t \in Terms(e) : IsMonomial(t, x)

\* integrate(c * x**n, x) = c * x**(n+1) / (n+1)
IntegrateMonomial(t, x) ==
    LET fs == IF t.op = "Mul" THEN Args(t) ELSE {t}
        xs == {f \in fs : has(f, x)}
        n == IF xs = {} THEN 0
             ELSE LET f == CHOOSE f \in xs : TRUE
                  IN  IF f = x THEN 1 ELSE Exponent(f).num
    IN  MkMul(SetToSeq(fs \ xs) \o <<MkPow(x, Integer(n + 1)), Rational(1, n + 1)>>)

\* integrate with the two calculus operations confused
integrate_as_diff(e, x) == diff(e, x)

\* integrate(e, x) for e polynomial in x
integrate(e, x) ==
    LET ts == SetToSeq(Terms(e))
    IN  MkAdd([i \in 1..Len(ts) |-> IntegrateMonomial(ts[i], x)])

\* latex(e): the rendering of the tree e
latex(e) == <<"latex", e>>

\* lambdify(symbols, e, modules): a function of the arguments named by
\* symbols, in that order, that evaluates e in the namespace modules.
NumpyAndCustom == {"numpy", "zeta", "eta", "erf", "psi", "lambertw"}
DefaultModules == {"numpy"}

lambdify(symbols, e, modules) ==
    [args |-> symbols, body |-> e, modules |-> modules]

\* e with every symbol replaced by its value and every operator evaluated
RECURSIVE Evaluate(_, _)
Evaluate(e, env) ==
    IF e.op = "Num" THEN e
    ELSE IF e.op = "Sym" THEN env[e.name]
    ELSE IF e.op = "Fn" THEN Function(e.name, Evaluate(Base(e), env))
    ELSE IF e.op = "Pow" THEN MkPow(Evaluate(Base(e), env), Evaluate(Exponent(e), env))
    ELSE LET ks == SetToSeq(Args(e))
             vs == [i \in 1..Len(ks) |-> Evaluate(ks[i], env)]
         IN  IF e.op = "Add" THEN MkAdd(vs) ELSE MkMul(vs)

\* f(*values) for f = lambdify(...): positional binding, TypeError when the
\* number of values is not the number of arguments.
Apply(f, values) ==
    IF Len(values) # Len(f.args) THEN [kind |-> "TypeError", value |-> Zero]
    ELSE [kind |-> "value",
          value |-> Evaluate(f.body,
                             [n \in Range(f.args) |->
                                 values[CHOOSE i \in 1..Len(f.args) : f.args[i] = n]])]

(***************************************************************************)
(* functions.py: multiplies_var                                            *)
(***************************************************************************)
RECURSIVE multiplies_var(_, _, _), _multiplies_var(_, _, _)

\* _multiplies_var without the descent into the arguments
_multiplies_var_flat(main_var, arb_var, expr) ==
    LET arg_list == {arg1 \in Args(expr) : has(arg1, main_var)}
    IN  \E arg1 \in arg_list : \E arg2 \in Args(expr) :
            /\ (arg2 = arb_var \/ (arg2.op = "Pow" /\ has(arg2, arb_var)))
            /\ has(expr, MkMul(<<arg1, arg2>>))

\* _multiplies_var taking any power as a qualifying factor, whether it holds
\* the candidate or not
_multiplies_var_any_power(main_var, arb_var, expr) ==
    LET arg_list == {arg1 \in Args(expr) : has(arg1, main_var)}
    IN  \/ \E arg1 \in arg_list : \E arg2 \in Args(expr) :
              /\ (arg2 = arb_var \/ arg2.op = "Pow")
              /\ has(expr, MkMul(<<arg1, arg2>>))
        \/ \E arg \in arg_list :
              /\ arg # main_var
              /\ multiplies_var(main_var, arb_var, arg)

\* Helper function for multiplies_var
_multiplies_var(main_var, arb_var, expr) ==
    LET arg_list == {arg1 \in Args(expr) : has(arg1, main_var)}
    IN  \/ \E arg1 \in arg_list : \E arg2 \in Args(expr) :
              /\ (arg2 = arb_var \/ (arg2.op = "Pow" /\ has(arg2, arb_var)))
              /\ has(expr, MkMul(<<arg1, arg2>>))
        \/ \E arg \in arg_list :
              /\ arg # main_var
              /\ multiplies_var(main_var, arb_var, arg)

multiplies_var(main_var, arb_var, expr) ==
    _multiplies_var(main_var, arb_var, expand(expr))

(***************************************************************************)
(* functions.py: FunctionZtoZ                                              *)
(***************************************************************************)
NoFunctionCall == [function_name |-> <<>>, param |-> ""]
NoFunction == [kind |-> "none"]
NoResult == [kind |-> "none"]
NoMultCall == [state |-> "none"]

\* list(symbol_set): the elements of a set in the order the set iterates
\* them, which depends on the hashes of the symbols (string hashes, salted
\* per process): every order is possible.
ListsOf(S) ==
    {l \in [1..Cardinality(S) -> S] : \A i, j \in 1..Cardinality(S) :
                                          l[i] = l[j] => i = j}

\* list.remove(x): the list without the first occurrence of x
RECURSIVE Remove(_, _)
Remove(list, x) ==
    IF list = <<>> THEN <<>>
    ELSE IF Head(list) = x THEN Tail(list)
    ELSE <<Head(list)>> \o Remove(Tail(list), x)

\* the test of line 131 weakened to "the expression has a symbol"
MainVariableFound_any(param, symbol_list) == symbol_list # <<>>

\* the test of line 131, negated: param in symbol_list
MainVariableFound(param, symbol_list) == param \in Range(symbol_list)

\* FunctionZtoZ.__init__ past the test of line 131; symbol_list is
\* list(symbol_set).
NewFunctionZtoZ(_symbolic_func, param, symbol_list) ==
    LET parameters == Remove(symbol_list, param)
        symbols == <<param>> \o parameters
    IN  [kind |-> "function",
         _symbolic_func |-> _symbolic_func,
         latex_repr |-> latex(_symbolic_func),
         parameters |-> parameters,
         symbols |-> symbols,
         _lambda_func |-> lambdify(symbols, _symbolic_func, NumpyAndCustom)]

\* a reset that takes the symbols from the new expression, as __init__ does
_reset_newsymbols(self) ==
    LET parameters == SetToSeq(free_symbols(self._symbolic_func) \ {self.symbols[1]})
        symbols == <<self.symbols[1]>> \o parameters
    IN  [self EXCEPT !.latex_repr = latex(self._symbolic_func),
                     !.parameters = parameters,
                     !.symbols = symbols,
                     !._lambda_func = lambdify(symbols, self._symbolic_func,
                                               DefaultModules)]

\* FunctionZtoZ._reset_samesymbols
_reset_samesymbols(self) ==
    [self EXCEPT !.latex_repr = latex(self._symbolic_func),
                 !._lambda_func = lambdify(self.symbols, self._symbolic_func,
                                           DefaultModules)]

\* float(True) = 1.0, float(False) = 0.0
float(b) == IF b THEN Integer(1) ELSE Integer(0)

\* get_default_values with its items in the reverse of the parameter order
get_default_values_reversed(self) ==
    [i \in 1..Len(self.parameters) |->
        [key |-> self.parameters[Len(self.parameters) + 1 - i],
         value |-> float(multiplies_var(
                       Symbol(self.symbols[1]),
                       Symbol(self.parameters[Len(self.parameters) + 1 - i]),
                       self._symbolic_func))]]

\* FunctionZtoZ.get_default_values: a dict, here its items in insertion order
get_default_values(self) ==
    [i \in 1..Len(self.parameters) |->
        [key |-> self.parameters[i],
         value |-> float(multiplies_var(Symbol(self.symbols[1]),
                                        Symbol(self.parameters[i]),
                                        self._symbolic_func))]]

\* __call__ taking the defaults in the reverse of the parameter order
__call__reversed(self, x, args) ==
    IF args = <<>>
    THEN LET kwargs == get_default_values(self)
         IN  Apply(self._lambda_func,
                   <<x>> \o [i \in 1..Len(kwargs) |->
                                kwargs[Len(kwargs) + 1 - i].value])
    ELSE Apply(self._lambda_func, <<x>> \o args)

\* FunctionZtoZ.__call__(x, *args)
__call__(self, x, args) ==
    IF args = <<>>
    THEN LET kwargs == get_default_values(self)
         IN  Apply(self._lambda_func,
                   <<x>> \o [i \in 1..Len(kwargs) |-> kwargs[i].value])
    ELSE Apply(self._lambda_func, <<x>> \o args)

(***************************************************************************)
(* SpecGen: one call of a grid generator.  Init draws the arguments, the   *)
(* two actions apply the generators.                                       *)
(***************************************************************************)
MaxCoord == 1
MaxExtent == 2
MaxPoints == 6
MaxLines == 3
MaxArrayPoints == 3

Coords == {FromInt(i) : i \in -MaxCoord..MaxCoord}
\* Whole widths and heights, and one below the spacing of the floats at 1.
Extents == {FromInt(i) : i \in 1..MaxExtent} \cup {FDiv(FromInt(1), FromInt(8))}

NoCall == [fn |-> "none", x0 |-> 0, y0 |-> 0, w |-> 0, h |-> 0,
           n_points_per_line |-> 0, n_lines |-> 0, x |-> <<>>, y |-> <<>>]

NoAnimator == [kind |-> "none"]
NoRequest == [path |-> "none"]
NoEngine == [kind |-> "none"]
NoPlotFormat == [kind |-> "none"]
NoPlot == [state |-> "none"]

IdleAnim ==
    /\ heap = <<>>
    /\ born = <<>>
    /\ ani = NoAnimator
    /\ req = NoRequest

IdleZeta ==
    /\ numba = FALSE
    /\ engine = NoEngine
    /\ threads = <<>>

IdlePlot ==
    /\ pfmt = NoPlotFormat
    /\ plot = NoPlot

IdleFunc ==
    /\ fcall = NoFunctionCall
    /\ fobj = NoFunction
    /\ ferr = ""
    /\ fcompiled = 0
    /\ fresult = NoResult
    /\ fhist = <<>>
    /\ mcall = NoMultCall

InitGen ==
    /\ \E x0 \in Coords, y0 \in Coords, w \in Extents, h \in Extents,
          n_points_per_line \in 0..MaxPoints, n_lines \in 1..MaxLines :
          call = [NoCall EXCEPT !.x0 = x0, !.y0 = y0, !.w = w, !.h = h,
                                !.n_points_per_line = n_points_per_line,
                                !.n_lines = n_lines]
    /\ grid = NoGrid
    /\ copy = NoGrid
    /\ IdleFunc
    /\ IdleAnim
    /\ IdleZeta
    /\ IdlePlot

CallHorizontal ==
    /\ call.fn = "none"
    /\ LET r == _horizontal_grid_array(call.x0, call.y0, call.w, call.h,
                                       call.n_points_per_line, call.n_lines)
       IN  call' = [call EXCEPT !.fn = "horizontal", !.x = r.x, !.y = r.y]
    /\ UNCHANGED <<grid, copy>>
    /\ UNCHANGED <<funcVars, mcall, restVars>>

CallVertical ==
    /\ call.fn = "none"
    /\ LET r == _vertical_grid_array(call.x0, call.y0, call.w, call.h,
                                     call.n_points_per_line, call.n_lines)
       IN  call' = [call EXCEPT !.fn = "vertical", !.x = r.x, !.y = r.y]
    /\ UNCHANGED <<grid, copy>>
    /\ UNCHANGED <<funcVars, mcall, restVars>>

NextGen == CallHorizontal \/ CallVertical

SpecGen == InitGen /\ [][NextGen]_vars

(***************************************************************************)
(* SpecArray: one call of grid_array.  Init draws the arguments.           *)
(***************************************************************************)
NoArrayCall == [fn |-> "none", x0 |-> 0, y0 |-> 0, w |-> 0, h |-> 0,
                n_points_per_line |-> 0, n_vertical_lines |-> 0,
                n_horizontal_lines |-> 0, x |-> <<>>, y |-> <<>>]

InitArray ==
    /\ \E x0 \in Coords, y0 \in Coords, w \in Extents, h \in Extents,
          n_points_per_line \in 0..MaxArrayPoints,
          n_vertical_lines \in 1..MaxLines,
          n_horizontal_lines \in 1..MaxLines :
          call = [NoArrayCall EXCEPT
                     !.x0 = x0, !.y0 = y0, !.w = w, !.h = h,
                     !.n_points_per_line = n_points_per_line,
                     !.n_vertical_lines = n_vertical_lines,
                     !.n_horizontal_lines = n_horizontal_lines]
    /\ grid = NoGrid
    /\ copy = NoGrid
    /\ IdleFunc
    /\ IdleAnim
    /\ IdleZeta
    /\ IdlePlot

CallGridArray ==
    /\ call.fn = "none"
    /\ \E r \in {grid_array(call.x0, call.y0, call.w, call.h,
                             call.n_points_per_line, call.n_vertical_lines,
                             call.n_horizontal_lines)} :
          call' = [call EXCEPT !.fn = "grid_array", !.x = r.x, !.y = r.y]
    /\ UNCHANGED <<grid, copy>>
    /\ UNCHANGED <<funcVars, mcall, restVars>>

NextArray == CallGridArray

SpecArray == InitArray /\ [][NextArray]_vars

(***************************************************************************)
(* SpecGrid: one ComplexGridArray object g and its get_copy().             *)
(***************************************************************************)
GridMaxCoord == 0
GridMaxExtent == 2
GridMaxPoints == 3
GridMaxLines == 2

GridCoords == {FromInt(i) : i \in -1..GridMaxCoord}
GridExtents == {FromInt(i) : i \in 1..GridMaxExtent}

InitGrid ==
    /\ call = NoCall
    /\ grid = NoGrid
    /\ copy = NoGrid
    /\ IdleFunc
    /\ IdleAnim
    /\ IdleZeta
    /\ IdlePlot

\* g = ComplexGridArray([x0, y0, xf, yf], n_points_per_line, n_horizontal_lines,
\*                      n_vertical_lines)
Construct ==
    /\ grid.kind = "none"
    /\ \E x0 \in GridCoords, y0 \in GridCoords,
          w \in GridExtents, h \in GridExtents,
          n_points_per_line \in 0..GridMaxPoints,
          n_horizontal_lines \in 1..GridMaxLines,
          n_vertical_lines \in 1..GridMaxLines :
          /\ grid' = NewComplexGridArray(<<x0, y0, FAdd(x0, w), FAdd(y0, h)>>,
                                         n_points_per_line,
                                         n_horizontal_lines, n_vertical_lines)
          /\ call' = [fn |-> "ComplexGridArray",
                      dimensions |-> <<x0, y0, FAdd(x0, w), FAdd(y0, h)>>,
                      n_points_per_line |-> n_points_per_line,
                      n_horizontal_lines |-> n_horizontal_lines,
                      n_vertical_lines |-> n_vertical_lines]
    /\ UNCHANGED copy
    /\ UNCHANGED <<funcVars, mcall, restVars>>

\* g.get_copy(): get_xlim reads self._x_min[0], an IndexError on an empty array.
GetCopy ==
    /\ grid.kind = "grid"
    /\ copy' = IF get_number_of_points_per_line(grid) = 0
               THEN [kind |-> "IndexError"]
               ELSE get_copy(grid)
    /\ UNCHANGED <<call, grid>>
    /\ UNCHANGED <<funcVars, mcall, restVars>>

NextGrid == Construct \/ GetCopy

SpecGrid == InitGrid /\ [][NextGrid]_vars

(***************************************************************************)
(* Claims on the grid generators (SpecGen)                                 *)
(***************************************************************************)
Called == call.fn # "none"

\* The coordinate along which the lines of the called family run (x for the
\* horizontal family, y for the vertical family) and the other one.
Primary == IF call.fn = "horizontal" THEN call.x ELSE call.y
Secondary == IF call.fn = "horizontal" THEN call.y ELSE call.x
PrimaryMin == IF call.fn = "horizontal" THEN call.x0 ELSE call.y0
PrimaryMax == IF call.fn = "horizontal" THEN FAdd(call.x0, call.w)
                                        ELSE FAdd(call.y0, call.h)

\* Samples per connector, and per loop iteration (one line and its connector).
ConnLen == call.n_points_per_line \div call.n_lines
Stride == call.n_points_per_line + ConnLen

\* 1-based positions of the first and last sample of line i (0 <= i <= n_lines).
LineFirst(i) == i * Stride + 1
LineLast(i) == i * Stride + call.n_points_per_line

\* C1: for n_lines >= 1 and n_points_per_line >= n_lines the path of either
\* family has no jump between consecutive lines i and i+1 (0 <= i < n_lines):
\* the last point of line i, every connector point and the first point of
\* line i+1 share the primary coordinate.
C1_NoJumpBetweenLines ==
    (Called /\ call.n_points_per_line >= call.n_lines) =>
        \A i \in 0..(call.n_lines - 1) :
            \A k \in LineLast(i)..LineFirst(i + 1) :
                Primary[k] = Primary[LineLast(i)]

\* C2: every line i in 0..n_lines runs from the minimum to the maximum of the
\* primary axis when i is even and from the maximum to the minimum when i is
\* odd (stated for lines of at least two samples).
LineForward(i) ==
    /\ Primary[LineFirst(i)] = PrimaryMin
    /\ Primary[LineLast(i)] = PrimaryMax
    /\ \A k \in LineFirst(i)..(LineLast(i) - 1) : Primary[k] <= Primary[k + 1]

LineReversed(i) ==
    /\ Primary[LineFirst(i)] = PrimaryMax
    /\ Primary[LineLast(i)] = PrimaryMin
    /\ \A k \in LineFirst(i)..(LineLast(i) - 1) : Primary[k] >= Primary[k + 1]

C2_DirectionAlternates ==
    (Called /\ call.n_points_per_line >= 2) =>
        \A i \in 0..call.n_lines :
            IF i % 2 = 0 THEN LineForward(i) ELSE LineReversed(i)

\* C3: for a rectangle of positive width and height, n_points_per_line >= 2
\* and n_lines >= 1, the x and y arrays have the same nonzero length and every
\* point lies in the closed rectangle.
C3_EqualLength ==
    (Called /\ call.n_points_per_line >= 2) =>
        /\ Len(call.x) = Len(call.y)
        /\ Len(call.x) > 0

C3_WithinRectangle ==
    (Called /\ call.n_points_per_line >= 2) =>
        /\ Len(call.x) = Len(call.y)
        /\ Len(call.x) > 0
        /\ \A k \in 1..Len(call.x) :
              /\ call.x0 <= call.x[k]
              /\ call.x[k] <= FAdd(call.x0, call.w)
              /\ call.y0 <= call.y[k]
              /\ call.y[k] <= FAdd(call.y0, call.h)

\* A call on which C3's bound is exceeded by rounding: the last sample of the
\* last connector, h/n + ((h/n)*(n-1) + y0), lies above y0 + h.
C3_OvershootReached ==
    /\ call.fn = "horizontal"
    /\ call.n_points_per_line >= 2
    /\ Len(call.y) > 0
    /\ \E k \in 1..Len(call.y) : call.y[k] > FAdd(call.y0, call.h)

\* C20: for n_lines >= 1 and n_points_per_line >= n_lines the path of either
\* family holds exactly n_lines connectors, one after each line i with
\* 0 <= i < n_lines and none after line n_lines, each of
\* floor(n_points_per_line / n_lines) samples, all of them on the maximum edge
\* of the primary axis when i is even and on the minimum edge when i is odd.
ConnectorFirst(i) == LineLast(i) + 1
ConnectorLast(i) == LineFirst(i + 1) - 1

C20_ConnectorsOnEdges ==
    (Called /\ call.n_points_per_line >= call.n_lines) =>
        /\ Len(Primary) = call.n_lines * Stride + call.n_points_per_line
        /\ \A i \in 0..(call.n_lines - 1) :
              \A k \in ConnectorFirst(i)..ConnectorLast(i) :
                  Primary[k] = IF i % 2 = 0 THEN PrimaryMax ELSE PrimaryMin

\* The number and the length of the connectors alone.
C20_ConnectorCount ==
    (Called /\ call.n_points_per_line >= call.n_lines) =>
        Len(Primary) = call.n_lines * Stride + call.n_points_per_line

\* C21: _vertical_grid_array is _horizontal_grid_array with the axes swapped:
\* the result (x, y) of _vertical_grid_array((x0, y0), (w, h), p, n), read as
\* (y, x), is the result of _horizontal_grid_array((y0, x0), (h, w), p, n),
\* sample for sample.
C21_VerticalIsSwappedHorizontal ==
    (call.fn = "vertical") =>
        Path(call.y, call.x) =
            _horizontal_grid_array(call.y0, call.x0, call.h, call.w,
                                   call.n_points_per_line, call.n_lines)

\* A vertical call on a rectangle whose two axes differ, with connectors, so
\* that the swap is visible: the unswapped horizontal family is another path.
C21_Witness ==
    /\ call.fn = "vertical"
    /\ call.x0 # call.y0
    /\ call.w # call.h
    /\ call.n_lines >= 2
    /\ call.n_points_per_line >= 2 * call.n_lines
    /\ Path(call.x, call.y) #
           _horizontal_grid_array(call.x0, call.y0, call.w, call.h,
                                  call.n_points_per_line, call.n_lines)

(***************************************************************************)
(* Claims on grid_array (SpecArray)                                        *)
(***************************************************************************)
\* 1-based position of the last sample of the horizontal family in the
\* combined path; the next one is the first sample of the reversed vertical
\* family.
Junction ==
    call.n_horizontal_lines *
        (call.n_points_per_line +
         call.n_points_per_line \div call.n_horizontal_lines) +
    call.n_points_per_line

AtCorner(k) ==
    /\ call.x[k] = FAdd(call.x0, call.w)
    /\ call.y[k] = FAdd(call.y0, call.h)

\* C30: for n_horizontal_lines >= 1 and n_vertical_lines >= 1 the combined path
\* of grid_array has no jump at the junction: the last point of the horizontal
\* family and the first point of the reversed vertical family are both the
\* corner (x0 + w, y0 + h), and the x and y arrays have the same length.
C30_NoJumpAtJunction ==
    (call.fn = "grid_array" /\ call.n_points_per_line >= 1) =>
        /\ Len(call.x) = Len(call.y)
        /\ AtCorner(Junction)
        /\ AtCorner(Junction + 1)

\* The lengths alone.
C30_EqualLength ==
    (call.fn = "grid_array") => Len(call.x) = Len(call.y)

(***************************************************************************)
(* Claims on ComplexGridArray (SpecGrid)                                   *)
(***************************************************************************)
\* C10: for every ComplexGridArray g built with n_points_per_line >= 1,
\* g.get_copy() has the same xlim, ylim, number of horizontal lines, number
\* of vertical lines and number of points per line as g.
C10_CopyEqualsOriginal ==
    (grid.kind = "grid" /\ get_number_of_points_per_line(grid) >= 1
        /\ copy.kind # "none") =>
        /\ copy.kind = "grid"
        /\ get_xlim(copy) = get_xlim(grid)
        /\ get_ylim(copy) = get_ylim(grid)
        /\ get_number_of_horizontal_lines(copy)
               = get_number_of_horizontal_lines(grid)
        /\ get_number_of_vertical_lines(copy)
               = get_number_of_vertical_lines(grid)
        /\ get_number_of_points_per_line(copy)
               = get_number_of_points_per_line(grid)

\* A copy was taken of a grid whose two line counts differ.
C10_Witness ==
    /\ grid.kind = "grid"
    /\ copy.kind = "grid"
    /\ get_number_of_points_per_line(grid) >= 1
    /\ get_number_of_horizontal_lines(grid)
           # get_number_of_vertical_lines(grid)
    /\ get_xlim(grid) # get_ylim(grid)

\* One unit in the last place of the float k (in quanta).
RECURSIVE UlpOf(_, _)
UlpOf(k, u) == IF Abs(k) < u * Pow2(MantBits) THEN u ELSE UlpOf(k, 2 * u)

Max(a, b) == IF a >= b THEN a ELSE b

\* samples is num values evenly spaced from a to b, up to the rounding of
\* float arithmetic: it starts at a, ends at b, and sample j lies within two
\* units in the last place (of the larger end) of a + (j-1)*(b-a)/(num-1).
EvenlySpaced(samples, a, b, num) ==
    /\ Len(samples) = num
    /\ num >= 1 => samples[1] = a /\ samples[num] = b
    /\ \A j \in 1..num :
          Abs((num - 1) * samples[j] - ((num - 1) * a + (j - 1) * (b - a)))
              <= (num - 1) * 2 * UlpOf(Max(Abs(a), Abs(b)), 1)

\* every sample of the array has the same value v
Constant(samples, v) == \A j \in 1..Len(samples) : samples[j] = v

Re(z) == [j \in 1..Len(z) |-> z[j].re]
Im(z) == [j \in 1..Len(z) |-> z[j].im]

\* The edges of get_boundaries(), in its order, for the corners x0, y0, xf, yf.
BoundariesAre(b, x0, y0, xf, yf, num) ==
    /\ Len(b) = 4
    /\ Constant(Re(b[1]), x0) /\ EvenlySpaced(Im(b[1]), y0, yf, num)
    /\ Constant(Im(b[2]), y0) /\ EvenlySpaced(Re(b[2]), x0, xf, num)
    /\ Constant(Re(b[3]), xf) /\ EvenlySpaced(Im(b[3]), y0, yf, num)
    /\ Constant(Im(b[4]), yf) /\ EvenlySpaced(Re(b[4]), x0, xf, num)

\* C11: for a ComplexGridArray built from [x0, y0, xf, yf], get_boundaries()
\* is [x_min, y_min, x_max, y_max], each edge with n_points_per_line samples:
\* x_min at real part x0 and x_max at xf with imaginary parts evenly spaced
\* from y0 to yf, y_min at imaginary part y0 and y_max at yf with real parts
\* evenly spaced from x0 to xf.
C11_BoundariesInOrder ==
    grid.kind = "grid" =>
        BoundariesAre(get_boundaries(grid),
                      call.dimensions[1], call.dimensions[2],
                      call.dimensions[3], call.dimensions[4],
                      call.n_points_per_line)

\* C11 as amended: the same for n_points_per_line >= 2 (one sample cannot
\* reach from one corner to the other, and no sample is no edge).
C11_BoundariesInOrderFromTwoPoints ==
    (grid.kind = "grid" /\ call.n_points_per_line >= 2) =>
        BoundariesAre(get_boundaries(grid),
                      call.dimensions[1], call.dimensions[2],
                      call.dimensions[3], call.dimensions[4],
                      call.n_points_per_line)

\* a grid of three points per line on a rectangle that is not a square
C11_Witness ==
    /\ grid.kind = "grid"
    /\ call.n_points_per_line = 3
    /\ call.dimensions[3] - call.dimensions[1]
           # call.dimensions[4] - call.dimensions[2]
    /\ call.dimensions[1] # call.dimensions[2]
    /\ Len(get_boundaries(grid)[1]) = 3

(***************************************************************************)
(* SpecFunc: one FunctionZtoZ object: its construction from a text and a   *)
(* main variable, then derivative(), antiderivative() and calls.           *)
(***************************************************************************)
MaxTransforms == 2

Texts ==
    { <<"sin", "(", "z", ")">>,
      <<"a", "*", "sin", "(", "w", "*", "z", ")">>,
      <<"a", "*", "sinh", "(", "k", "*", "x", ")", "+", "c">>,
      <<"z">>,
      <<"w", "*", "z", "+", "a">>,
      <<"c", "*", "z", "**", "2", "+", "a", "*", "z", "+", "b">>,
      <<"b", "+", "a", "*", "z", "-", "b">>,
      <<"z", "-", "z">>,
      <<"a", "+", "2">>,
      <<"a", "*">> }

MainVariables == {"z", "x"}

CallValues == {Integer(0), Integer(2)}

InitFunc ==
    /\ call = NoCall
    /\ grid = NoGrid
    /\ copy = NoGrid
    /\ IdleFunc
    /\ IdleAnim
    /\ IdleZeta
    /\ IdlePlot

\* FunctionZtoZ(function_name, param)
NewFunction ==
    /\ fcall = NoFunctionCall
    /\ \E function_name \in Texts, param \in MainVariables :
          LET parsed == parse_expr(function_name)
          IN  /\ fcall' = [function_name |-> function_name, param |-> param]
              /\ IF ~parsed.ok
                 THEN /\ ferr' = "SyntaxError"
                      /\ UNCHANGED <<fobj, fcompiled>>
                 ELSE \E symbol_list \in ListsOf(free_symbols(parsed.node)) :
                         IF ~MainVariableFound(param, symbol_list)
                         THEN /\ ferr' = "VariableNotFoundError"
                              /\ UNCHANGED <<fobj, fcompiled>>
                         ELSE /\ fobj' = NewFunctionZtoZ(parsed.node, param,
                                                         symbol_list)
                              /\ fcompiled' = fcompiled + 1
                              /\ UNCHANGED ferr
    /\ UNCHANGED <<fresult, fhist, mcall, gridVars, restVars>>

\* self.derivative()
Derivative ==
    /\ fobj.kind = "function"
    /\ Len(fhist) < MaxTransforms
    /\ fobj' = _reset_samesymbols(
                  [fobj EXCEPT !._symbolic_func =
                                   diff(@, Symbol(fobj.symbols[1]))])
    /\ fcompiled' = fcompiled + 1
    /\ fhist' = Append(fhist, "derivative")
    /\ UNCHANGED <<fcall, ferr, fresult, mcall, gridVars, restVars>>

\* self.antiderivative(), for an expression polynomial in the main variable
Antiderivative ==
    /\ fobj.kind = "function"
    /\ Len(fhist) < MaxTransforms
    /\ IsPolynomial(fobj._symbolic_func, Symbol(fobj.symbols[1]))
    /\ fobj' = _reset_samesymbols(
                  [fobj EXCEPT !._symbolic_func =
                                   integrate(@, Symbol(fobj.symbols[1]))])
    /\ fcompiled' = fcompiled + 1
    /\ fhist' = Append(fhist, "antiderivative")
    /\ UNCHANGED <<fcall, ferr, fresult, mcall, gridVars, restVars>>

\* self(x) and self(x, *values) with the values of get_default_values()
CallFunction ==
    /\ fobj.kind = "function"
    /\ \E x \in CallValues :
          LET kwargs == get_default_values(fobj)
              values == [i \in 1..Len(fobj.parameters) |->
                            (CHOOSE kv \in Range(kwargs) :
                                 kv.key = fobj.parameters[i]).value]
          IN  fresult' = [kind |-> "called", x |-> x,
                          bare |-> __call__(fobj, x, <<>>),
                          explicit |-> __call__(fobj, x, values)]
    /\ UNCHANGED <<fcall, fobj, ferr, fcompiled, fhist, mcall, gridVars, restVars>>

\* self.get_default_values(); after is the history of the object at the call
GetDefaultValues ==
    /\ fobj.kind = "function"
    /\ \E r \in {get_default_values(fobj)} :
          fresult' = [kind |-> "defaults", items |-> r, after |-> fhist]
    /\ UNCHANGED <<fcall, fobj, ferr, fcompiled, fhist, mcall, gridVars, restVars>>

NextFunc ==
    \/ NewFunction
    \/ Derivative
    \/ Antiderivative
    \/ CallFunction
    \/ GetDefaultValues

SpecFunc == InitFunc /\ [][NextFunc]_vars

(***************************************************************************)
(* SpecMult: one call of multiplies_var.  Init draws the arguments.        *)
(***************************************************************************)
Candidates == {"a", "b", "c", "k", "w", "x", "z"}

\* Texts with a factor that is a power holding a symbol in its exponent.
PowerTexts ==
    { <<"z", "*", "2", "**", "a">>,
      <<"x", "*", "a", "**", "k">> }

MultTexts == {t \in Texts : parse_expr(t).ok} \cup PowerTexts

InitMult ==
    /\ call = NoCall
    /\ grid = NoGrid
    /\ copy = NoGrid
    /\ fcall = NoFunctionCall
    /\ fobj = NoFunction
    /\ ferr = ""
    /\ fcompiled = 0
    /\ fresult = NoResult
    /\ fhist = <<>>
    /\ IdleAnim
    /\ IdleZeta
    /\ IdlePlot
    /\ \E main_var \in MainVariables, arb_var \in Candidates, text \in MultTexts :
          mcall = [state |-> "drawn", main_var |-> main_var, arb_var |-> arb_var,
                   text |-> text, result |-> FALSE]

\* multiplies_var(main_var, arb_var, parse_expr(text))
CallMultipliesVar ==
    /\ mcall.state = "drawn"
    /\ mcall' = [mcall EXCEPT
                    !.state = "returned",
                    !.result = multiplies_var(Symbol(mcall.main_var),
                                              Symbol(mcall.arb_var),
                                              parse_expr(mcall.text).node)]
    /\ UNCHANGED <<funcVars, gridVars, restVars>>

NextMult == CallMultipliesVar

SpecMult == InitMult /\ [][NextMult]_vars

(***************************************************************************)
(* Claims on FunctionZtoZ (SpecFunc)                                       *)
(***************************************************************************)
Constructed == fobj.kind = "function"

\* The free symbols of the text other than param, each once, in the order
\* of their first appearance in the text.
RECURSIVE FirstAppearance(_, _, _)
FirstAppearance(toks, names, acc) ==
    IF toks = <<>> THEN acc
    ELSE FirstAppearance(Tail(toks), names,
                         IF Head(toks) \in names /\ Head(toks) \notin Range(acc)
                         THEN Append(acc, Head(toks)) ELSE acc)

\* C4: after FunctionZtoZ(expr, main) the parameters list holds each free
\* symbol of the expression other than main exactly once, ordered by the
\* first appearance of the symbol in the expression.
C4_ParametersInFirstAppearanceOrder ==
    (Constructed /\ fhist = <<>>) =>
        fobj.parameters =
            FirstAppearance(fcall.function_name,
                            free_symbols(parse_expr(fcall.function_name).node)
                                \ {fcall.param},
                            <<>>)

\* The part of C4 the code keeps: each free symbol other than main once.
C4_ParametersAreTheOtherSymbols ==
    (Constructed /\ fhist = <<>>) =>
        /\ Range(fobj.parameters) =
              free_symbols(parse_expr(fcall.function_name).node) \ {fcall.param}
        /\ \A i, j \in 1..Len(fobj.parameters) :
              fobj.parameters[i] = fobj.parameters[j] => i = j

\* a*sin(w*z) with main variable z constructed with w before a
C4_OtherOrderReached ==
    /\ Constructed
    /\ fcall.function_name = <<"a", "*", "sin", "(", "w", "*", "z", ")">>
    /\ fcall.param = "z"
    /\ fobj.parameters = <<"w", "a">>

\* C5: FunctionZtoZ(expr, main) raises VariableNotFoundError exactly when
\* main is not among the free symbols of the parsed expression, and then no
\* evaluator has been compiled and no object exists.
C5_VariableNotFoundExactly ==
    fcall # NoFunctionCall =>
        LET parsed == parse_expr(fcall.function_name)
        IN  /\ (ferr = "VariableNotFoundError") <=>
                  (parsed.ok /\ fcall.param \notin free_symbols(parsed.node))
            /\ ferr = "VariableNotFoundError" => (fobj = NoFunction /\ fcompiled = 0)

\* z - z with main variable z: the text names z, the parsed expression is 0
C5_Witness ==
    /\ fcall.function_name = <<"z", "-", "z">>
    /\ fcall.param = "z"
    /\ ferr = "VariableNotFoundError"
    /\ fobj = NoFunction

MainVariableIsFree == fobj.symbols[1] \in free_symbols(fobj._symbolic_func)

C7_TransformKeepsSymbols ==
    [][fhist' # fhist =>
          /\ fobj'.symbols = fobj.symbols
          /\ fobj'.parameters = fobj.parameters
          /\ fobj'._symbolic_func =
                (IF fhist'[Len(fhist')] = "derivative"
                 THEN diff(fobj._symbolic_func, Symbol(fobj.symbols[1]))
                 ELSE integrate(fobj._symbolic_func, Symbol(fobj.symbols[1])))
          /\ fobj'.latex_repr = latex(fobj'._symbolic_func)
          /\ fobj'._lambda_func.body = fobj'._symbolic_func
          /\ fobj'._lambda_func.args = fobj.symbols
          /\ fobj'.kind = "function"]_vars

\* a transformed object whose expression lost symbols its lists still hold
C7_Witness ==
    /\ Constructed
    /\ fhist # <<>>
    /\ Len(fobj.parameters) >= 2
    /\ free_symbols(fobj._symbolic_func) # Range(fobj.symbols)
    /\ fobj.latex_repr = latex(fobj._symbolic_func)

\* C8: a call with only the main-variable value gives the result of the
\* call with the values of get_default_values() passed positionally in the
\* order of the parameters list, for any number of parameters.
C8_BareCallUsesDefaults ==
    fresult.kind = "called" =>
        /\ fresult.bare = fresult.explicit
        /\ fresult.bare.kind = "value"

\* a call of an object with two parameters whose defaults differ
C8_Witness ==
    /\ fresult.kind = "called"
    /\ Len(fobj.parameters) = 2
    /\ get_default_values(fobj)[1].value # get_default_values(fobj)[2].value
    /\ fresult.bare.kind = "value"
    /\ fresult.bare = fresult.explicit

\* C24: in every reachable state of a FunctionZtoZ object, after construction
\* and after any number of derivative() or antiderivative() calls, the
\* compiled evaluator resolves named calls against the same fixed namespace:
\* numpy plus the custom entries zeta, eta, erf, psi and lambertw.
C24_FixedNamespace ==
    Constructed => fobj._lambda_func.modules = NumpyAndCustom

\* The part of C24 the code keeps: the namespace of a newly constructed
\* object.
C24_NamespaceAfterConstruction ==
    (Constructed /\ fhist = <<>>) => fobj._lambda_func.modules = NumpyAndCustom

\* The default of parameter s for the current expression of the object.
DefaultOf(s) ==
    IF multiplies_var(Symbol(fobj.symbols[1]), Symbol(s), fobj._symbolic_func)
    THEN Integer(1) ELSE Integer(0)

\* C26: get_default_values() returns exactly one entry per element of the
\* parameters list, in the order of the list, whose value is 1.0 when
\* multiplies_var(main variable, parameter, current expression) is true and
\* 0.0 otherwise; after derivative() or antiderivative() the values are those
\* of the new expression.
C26_DefaultsOfCurrentExpression ==
    (fresult.kind = "defaults" /\ fresult.after = fhist) =>
        /\ Len(fresult.items) = Len(fobj.parameters)
        /\ \A i \in 1..Len(fobj.parameters) :
              /\ fresult.items[i].key = fobj.parameters[i]
              /\ fresult.items[i].value = DefaultOf(fobj.parameters[i])

\* The defaults of c*z**2 + a*z + b after derivative(): a, a scale of z
\* before, is an additive constant of 2*c*z + a.
C26_Witness ==
    /\ fresult.kind = "defaults"
    /\ fresult.after = fhist
    /\ fhist = <<"derivative">>
    /\ Len(fobj.parameters) = 3
    /\ \E i \in 1..3 :
          /\ fresult.items[i] = [key |-> "a", value |-> Integer(0)]
          /\ multiplies_var(Symbol(fcall.param), Symbol("a"),
                            parse_expr(fcall.function_name).node)
    /\ \E i \in 1..3 : fresult.items[i] = [key |-> "c", value |-> Integer(1)]

(***************************************************************************)
(* Claims on multiplies_var (SpecMult)                                     *)
(***************************************************************************)
SinhText == <<"a", "*", "sinh", "(", "k", "*", "x", ")", "+", "c">>

\* C9: for a*sinh(k*x) + c with main variable x, multiplies_var is true
\* for the candidates a and k and false for every other candidate.
C9_SinhExample ==
    (mcall.state = "returned" /\ mcall.text = SinhText /\ mcall.main_var = "x") =>
        (mcall.result <=> mcall.arb_var \in {"a", "k"})

\* the call for the candidate k has returned true
C9_Witness ==
    /\ mcall.state = "returned"
    /\ mcall.text = SinhText
    /\ mcall.main_var = "x"
    /\ mcall.arb_var = "k"
    /\ mcall.result

(***************************************************************************)
(* complex_mapper.py: ComplexGridPlotFormat and complex_grid_plot          *)
(***************************************************************************)
\* ComplexGridPlotFormat.__init__
NewComplexGridPlotFormat ==
    [kind |-> "format",
     _title |-> "",
     _grid_boundaries |-> <<FromInt(-5), FromInt(5), FromInt(-5), FromInt(5)>>,
     _plot_boundaries |-> "None",
     _n_of_points |-> 100,
     _spacing |-> 0]

set_grid_boundaries(self, grid_boundaries) ==
    [self EXCEPT !._grid_boundaries = grid_boundaries]
get_grid_boundaries(self) == self._grid_boundaries
set_number_of_points_per_line(self, number_of_points) ==
    [self EXCEPT !._n_of_points = number_of_points]
set_domain_grid_spacing(self, spacing) == [self EXCEPT !._spacing = spacing]
get_domain_grid_spacing(self) == self._spacing

\* frac // 1 and frac % 1 on a Python float: the floor, and what is left
\* above it (the sum with 1.0 rounds when the C remainder is negative).
FloorOne(frac) == (frac \div Unit) * Unit
ModOne(frac) ==
    LET r == IF frac >= 0 THEN frac - FloorOne(frac)
                          ELSE -((-frac) - FloorOne(-frac))
    IN  IF r < 0 THEN FAdd(r, Unit) ELSE r

\* remainder(numerator, denominator) and integer_division(numerator,
\* denominator); both divide by float(denominator), nonzero here.
remainder(numerator, denominator) ==
    FMul(denominator, ModOne(FDiv(numerator, denominator)))
integer_division(numerator, denominator) ==
    FloorOne(FDiv(numerator, denominator)) \div Unit

\* One plt.plot(np.real(z), np.imag(z), color=...) of z = x + 1.0j*y.
PlotLine(x, y, color) == [re |-> x, im |-> y, color |-> color]

\* The four edge lines in the order they are plotted (lines 236-267), for
\* minx, maxx, miny, maxy = grid_boundaries.
EdgeLines(minx, maxx, miny, maxy, n_of_points) ==
    << PlotLine(ones(n_of_points, minx), linspace(miny, maxy, n_of_points),
                "orange"),
       PlotLine(ones(n_of_points, maxx), linspace(miny, maxy, n_of_points),
                "darkorange"),
       PlotLine(linspace(minx, maxx, n_of_points), ones(n_of_points, miny),
                "blue"),
       PlotLine(linspace(minx, maxx, n_of_points), ones(n_of_points, maxy),
                "darkblue") >>

\* Where interior line i of a family sits: lo + i*spacing when the spacing
\* divides the extent, lo + (spacing + remainder)/2 + i*spacing otherwise.
InteriorPosition(lo, extent, spacing, i) ==
    IF remainder(extent, spacing) = 0
    THEN FAdd(lo, FMul(FromInt(i), spacing))
    ELSE FAdd(FAdd(lo, FDiv(FAdd(spacing, remainder(extent, spacing)),
                            FromInt(2))),
              FMul(FromInt(i), spacing))

InteriorVerticalLines(minx, maxx, miny, maxy, n_of_points, spacing) ==
    [k \in 1..integer_division(FSub(maxx, minx), spacing) |->
        PlotLine(ones(n_of_points,
                      InteriorPosition(minx, FSub(maxx, minx), spacing, k - 1)),
                 linspace(miny, maxy, n_of_points), "orange")]

InteriorHorizontalLines(minx, maxx, miny, maxy, n_of_points, spacing) ==
    [k \in 1..integer_division(FSub(maxy, miny), spacing) |->
        PlotLine(linspace(minx, maxx, n_of_points),
                 ones(n_of_points,
                      InteriorPosition(miny, FSub(maxy, miny), spacing, k - 1)),
                 "blue")]

\* complex_grid_plot(plot_format, lambda z: z): the lines drawn, up to the
\* ZeroDivisionError of integer_division for a spacing of 0.
complex_grid_plot(plot_format) ==
    LET gb == get_grid_boundaries(plot_format)
        n == plot_format._n_of_points
        spacing == get_domain_grid_spacing(plot_format)
    IN  IF spacing = 0
        THEN [state |-> "ZeroDivisionError",
              lines |-> EdgeLines(gb[1], gb[2], gb[3], gb[4], n)]
        ELSE [state |-> "saved",
              lines |-> EdgeLines(gb[1], gb[2], gb[3], gb[4], n)
                        \o InteriorVerticalLines(gb[1], gb[2], gb[3], gb[4],
                                                 n, spacing)
                        \o InteriorHorizontalLines(gb[1], gb[2], gb[3], gb[4],
                                                   n, spacing)]

(***************************************************************************)
(* SpecPlot: a ComplexGridPlotFormat is filled in, then complex_grid_plot  *)
(* draws the domain grid from it.                                          *)
(***************************************************************************)
MaxPlotCoord == 1
MaxPlotPoints == 2
MaxSpacingDivisor == 2

PlotCoords == {FromInt(i) : i \in -MaxPlotCoord..MaxPlotCoord}
PlotSpacings == {0} \cup {FDiv(FromInt(1), FromInt(d)) : d \in 1..MaxSpacingDivisor}

InitPlot ==
    /\ call = NoCall
    /\ grid = NoGrid
    /\ copy = NoGrid
    /\ IdleFunc
    /\ IdleAnim
    /\ IdleZeta
    /\ pfmt = NewComplexGridPlotFormat
    /\ plot = NoPlot

SetGridBoundaries ==
    /\ plot.state = "none"
    /\ \E a \in PlotCoords, b \in PlotCoords, c \in PlotCoords, e \in PlotCoords :
          pfmt' = set_grid_boundaries(pfmt, <<a, b, c, e>>)
    /\ UNCHANGED <<plot, gridVars, funcVars, mcall, animVars, zetaVars>>

SetNumberOfPointsPerLine ==
    /\ plot.state = "none"
    /\ \E number_of_points \in 1..MaxPlotPoints :
          pfmt' = set_number_of_points_per_line(pfmt, number_of_points)
    /\ UNCHANGED <<plot, gridVars, funcVars, mcall, animVars, zetaVars>>

SetDomainGridSpacing ==
    /\ plot.state = "none"
    /\ \E spacing \in PlotSpacings :
          pfmt' = set_domain_grid_spacing(pfmt, spacing)
    /\ UNCHANGED <<plot, gridVars, funcVars, mcall, animVars, zetaVars>>

ComplexGridPlot ==
    /\ plot.state = "none"
    /\ plot' = complex_grid_plot(pfmt)
    /\ UNCHANGED <<pfmt, gridVars, funcVars, mcall, animVars, zetaVars>>

NextPlot ==
    \/ SetGridBoundaries
    \/ SetNumberOfPointsPerLine
    \/ SetDomainGridSpacing
    \/ ComplexGridPlot

SpecPlot == InitPlot /\ [][NextPlot]_vars

(***************************************************************************)
(* Claims on complex_grid_plot (SpecPlot)                                  *)
(***************************************************************************)
\* C19: the list stored by set_grid_boundaries is read by complex_grid_plot
\* as [x_min, y_min, x_max, y_max]: the bottom edge is drawn at imaginary
\* part equal to its second element, the right edge at real part equal to
\* its third element and the top edge at imaginary part equal to its fourth.
C19_BoundariesAsDocumented ==
    plot.state # "none" =>
        /\ \A j \in 1..Len(plot.lines[3].im) :
              plot.lines[3].im[j] = get_grid_boundaries(pfmt)[2]
        /\ \A j \in 1..Len(plot.lines[2].re) :
              plot.lines[2].re[j] = get_grid_boundaries(pfmt)[3]
        /\ \A j \in 1..Len(plot.lines[4].im) :
              plot.lines[4].im[j] = get_grid_boundaries(pfmt)[4]

\* What the code does instead: the list is unpacked as minx, maxx, miny,
\* maxy, so the right edge sits at the second element and the bottom edge at
\* the third.
C19_BoundariesAsUnpacked ==
    plot.state # "none" =>
        /\ \A j \in 1..Len(plot.lines[3].im) :
              plot.lines[3].im[j] = get_grid_boundaries(pfmt)[3]
        /\ \A j \in 1..Len(plot.lines[2].re) :
              plot.lines[2].re[j] = get_grid_boundaries(pfmt)[2]
        /\ \A j \in 1..Len(plot.lines[4].im) :
              plot.lines[4].im[j] = get_grid_boundaries(pfmt)[4]

(***************************************************************************)
(* complex_animation.py, tkapp.py, qtapp.py: the paths to a new grid.      *)
(* ComplexGridArray instances live in heap and are named by their index;   *)
(* the animator holds the reference _grid.                                 *)
(***************************************************************************)
\* The exception raised by _horizontal_grid_array / _vertical_grid_array
\* for these counts, "" if none: np.linspace and np.ones refuse a negative
\* number of samples, n_points_per_line//n_lines divides by n_lines.
GeneratorError(n_points_per_line, n_lines) ==
    IF n_points_per_line < 0 THEN "ValueError"
    ELSE IF n_lines = 0 THEN "ZeroDivisionError"
    ELSE IF n_lines < 0 /\ n_points_per_line > 0 THEN "ValueError"
    ELSE ""

\* The exception raised by ComplexGridArray.__init__, "" if none; the
\* horizontal family is generated first.
ComplexGridArrayError(n_points_per_line, n_horizontal_lines, n_vertical_lines) ==
    IF GeneratorError(n_points_per_line, n_horizontal_lines) # ""
    THEN GeneratorError(n_points_per_line, n_horizontal_lines)
    ELSE GeneratorError(n_points_per_line, n_vertical_lines)

\* The result of a call on the animator: the animator, the heap and the
\* exception that left the call, "" if it returned.
Returned(self, h, raised) == [ani |-> self, heap |-> h, raised |-> raised]

\* The mutant of set_grid: the current instance is rebuilt in place.
set_grid_in_place(self, h, dimensions, n_points_per_line, n_horizontal_lines, n_vertical_lines) ==
    IF ComplexGridArrayError(n_points_per_line, n_horizontal_lines,
                             n_vertical_lines) # ""
    THEN Returned(self, h, ComplexGridArrayError(n_points_per_line,
                                                 n_horizontal_lines,
                                                 n_vertical_lines))
    ELSE Returned([self EXCEPT !._has_changed = TRUE],
                  [h EXCEPT ![self._grid] =
                      NewComplexGridArray(dimensions, n_points_per_line,
                                          n_horizontal_lines, n_vertical_lines)],
                  "")

\* ComplexAnimator.set_grid: a new instance is built and _grid rebound to it.
set_grid(self, h, dimensions, n_points_per_line, n_horizontal_lines, n_vertical_lines) ==
    IF ComplexGridArrayError(n_points_per_line, n_horizontal_lines,
                             n_vertical_lines) # ""
    THEN Returned(self, h, ComplexGridArrayError(n_points_per_line,
                                                 n_horizontal_lines,
                                                 n_vertical_lines))
    ELSE Returned([self EXCEPT !._grid = Len(h) + 1, !._has_changed = TRUE],
                  Append(h, NewComplexGridArray(dimensions, n_points_per_line,
                                                n_horizontal_lines,
                                                n_vertical_lines)),
                  "")

get_grid(self, h) == h[self._grid]

TkMaxVerticalLines == 120
QtMaxLines == 250

\* ModifyGridPopup.adjust_grid with the six entries holding numbers;
\* widgets[4] is the number of vertical lines, widgets[5] of horizontal ones.
adjust_grid(self, h, widgets, points) ==
    IF widgets[5] > TkMaxVerticalLines
    THEN Returned(self, h, "")
    ELSE set_grid(self, h, <<widgets[1], widgets[2], widgets[3], widgets[4]>>,
                  points, widgets[6], widgets[5])

\* SetGridInputWidget.on_line_edit_changed with the six line edits holding
\* numbers; texts[4] and texts[5] are the two line counts.
on_line_edit_changed(self, h, texts) ==
    IF texts[1] >= texts[3] \/ texts[2] >= texts[4]
    THEN Returned(self, h, "")
    ELSE IF texts[5] <= 0 \/ texts[6] <= 0
            \/ texts[5] > QtMaxLines \/ texts[6] > QtMaxLines
    THEN Returned(self, h, "")
    ELSE set_grid(self, h, <<texts[1], texts[2], texts[3], texts[4]>>,
                  get_number_of_points_per_line(get_grid(self, h)),
                  texts[5], texts[6])

(***************************************************************************)
(* SpecAnim: a ComplexAnimator, the grid instances made for it and the     *)
(* requests for a new grid that reach it.                                  *)
(***************************************************************************)
MaxObjects == 2
PointsPerLine == 3

\* The rectangles asked for: a proper one, one with x_min > x_max and one
\* with y_min = y_max.
AnimDimensions ==
    { <<FromInt(0), FromInt(0), FromInt(1), FromInt(1)>>,
      <<FromInt(1), FromInt(0), FromInt(0), FromInt(1)>>,
      <<FromInt(0), FromInt(1), FromInt(1), FromInt(1)>> }
LineCounts == {-1, 0, 1, PointsPerLine + 1}

\* The requests C13 is about.
InvalidRequest(dimensions, n_points_per_line, n_horizontal_lines, n_vertical_lines) ==
    \/ n_horizontal_lines <= 0
    \/ n_vertical_lines <= 0
    \/ dimensions[1] >= dimensions[3]
    \/ dimensions[2] >= dimensions[4]
    \/ n_points_per_line < n_horizontal_lines
    \/ n_points_per_line < n_vertical_lines

\* ComplexAnimator.__init__ builds the first grid.
InitAnim ==
    /\ call = NoCall
    /\ grid = NoGrid
    /\ copy = NoGrid
    /\ IdleFunc
    /\ IdleZeta
    /\ IdlePlot
    /\ heap = << NewComplexGridArray(<<FromInt(-1), FromInt(-1),
                                       FromInt(1), FromInt(1)>>,
                                     PointsPerLine, 1, 2) >>
    /\ born = heap
    /\ ani = [kind |-> "animator", _grid |-> 1, _has_changed |-> TRUE]
    /\ req = NoRequest

\* What a request leaves behind: the animator and heap of r, the new
\* instance remembered as built, and the record of the request.
Requested(path, invalid, r) ==
    /\ Len(r.heap) <= MaxObjects
    /\ ani' = r.ani
    /\ heap' = r.heap
    /\ born' = IF Len(r.heap) > Len(heap)
               THEN Append(born, r.heap[Len(r.heap)]) ELSE born
    /\ req' = [path |-> path, invalid |-> invalid,
               outcome |-> IF r.raised # "" THEN r.raised
                           ELSE IF r.heap = heap /\ r.ani = ani THEN "rejected"
                           ELSE "installed"]
    /\ UNCHANGED <<gridVars, funcVars, mcall, zetaVars, plotVars>>

SetGrid ==
    \E dimensions \in AnimDimensions,
       n_horizontal_lines \in LineCounts, n_vertical_lines \in LineCounts :
        \E r \in {set_grid(ani, heap, dimensions, PointsPerLine,
                           n_horizontal_lines, n_vertical_lines)} :
            Requested("set_grid",
                      InvalidRequest(dimensions, PointsPerLine,
                                     n_horizontal_lines, n_vertical_lines), r)

AdjustGrid ==
    \E dimensions \in AnimDimensions, horizontal \in LineCounts,
       vertical \in LineCounts \cup {TkMaxVerticalLines + 1} :
        \E r \in {adjust_grid(ani, heap, dimensions \o <<vertical, horizontal>>,
                              PointsPerLine)} :
            Requested("adjust_grid",
                      InvalidRequest(dimensions, PointsPerLine,
                                     horizontal, vertical), r)

OnLineEditChanged ==
    \E dimensions \in AnimDimensions,
       horizontal \in LineCounts \cup {QtMaxLines + 1},
       vertical \in LineCounts \cup {QtMaxLines + 1} :
        \E r \in {on_line_edit_changed(ani, heap,
                                       dimensions \o <<horizontal, vertical>>)} :
            Requested("on_line_edit_changed",
                      InvalidRequest(dimensions,
                                     get_number_of_points_per_line(get_grid(ani, heap)),
                                     horizontal, vertical), r)

\* get_grid().get_copy(), as the windows do before the zeta grid is shown.
AnimGetCopy ==
    /\ Len(heap) < MaxObjects
    /\ \E i \in 1..Len(heap) : \E c \in {get_copy(heap[i])} :
          /\ heap' = Append(heap, c)
          /\ born' = Append(born, c)
          /\ req' = [path |-> "get_copy", invalid |-> FALSE,
                     outcome |-> "returned"]
    /\ UNCHANGED <<ani, gridVars, funcVars, mcall, zetaVars, plotVars>>

\* A getter of an instance is called.
Getters ==
    {"get_horizontal_lines", "get_vertical_lines", "get_boundaries",
     "get_xlim", "get_ylim", "get_number_of_points_per_line",
     "get_number_of_vertical_lines", "get_number_of_horizontal_lines"}

AnimGetter ==
    /\ \E i \in 1..Len(heap), getter \in Getters :
          req' = [path |-> getter, invalid |-> FALSE, outcome |-> "returned"]
    /\ UNCHANGED <<heap, born, ani, gridVars, funcVars, mcall, zetaVars, plotVars>>

NextAnim ==
    \/ SetGrid
    \/ AdjustGrid
    \/ OnLineEditChanged
    \/ AnimGetCopy
    \/ AnimGetter

SpecAnim == InitAnim /\ [][NextAnim]_vars

(***************************************************************************)
(* Claims on the animator's grid (SpecAnim)                                *)
(***************************************************************************)
\* What C12 compares of two instances: line arrays, boundary arrays, counts.
SameGrid(g, b) ==
    /\ get_horizontal_lines(g) = get_horizontal_lines(b)
    /\ get_vertical_lines(g) = get_vertical_lines(b)
    /\ get_boundaries(g) = get_boundaries(b)
    /\ get_number_of_horizontal_lines(g) = get_number_of_horizontal_lines(b)
    /\ get_number_of_vertical_lines(g) = get_number_of_vertical_lines(b)

\* C12: no operation changes an existing ComplexGridArray: after any
\* sequence of getter and get_copy() calls and after set_grid installs a new
\* grid, every instance created so far has the line arrays, boundary arrays
\* and line counts it had right after its construction.
C12_InstancesNeverChange ==
    /\ Len(born) = Len(heap)
    /\ \A i \in 1..Len(heap) : SameGrid(heap[i], born[i])

\* set_grid has installed a second instance that differs from the first.
C12_Witness ==
    /\ Len(heap) = 2
    /\ ani._grid = 2
    /\ req.path = "set_grid"
    /\ ~SameGrid(heap[2], heap[1])

\* C13: on every path that replaces the animator's grid (on_line_edit_changed,
\* adjust_grid, set_grid) a request with a non-positive line count, with
\* x_min >= x_max or y_min >= y_max, or with n_points_per_line < n_lines is
\* rejected before any ComplexGridArray is constructed, and the current grid
\* stays unchanged.  An exception out of the constructor is let pass as a
\* rejection.
GridPaths == {"set_grid", "adjust_grid", "on_line_edit_changed"}

C13_InvalidRequestsRejected ==
    [][(req'.path \in GridPaths /\ req'.invalid) =>
          (/\ req'.outcome # "installed"
           /\ heap' = heap
           /\ ani' = ani)]_vars

(***************************************************************************)
(* tkapp.py, qtapp.py: the window and its animator.  One record holds the  *)
(* animator's attributes and the window's _zeta_selected_from_dropdown and *)
(* _grid_before_zeta_selected (in Tk the window is the animator); grids    *)
(* are named by their index in heap, 0 is None.  A function object is      *)
(* named by the text it was built from.                                    *)
(***************************************************************************)
\* The presets of the two dropdowns (three of them, zeta among them).
function_dropdown_dict ==
    [event \in {"identity", "sine", "zeta"} |->
        CASE event = "identity" -> <<"z">>
          [] event = "sine" -> <<"a", "*", "sin", "(", "w", "*", "z", ")">>
          [] event = "zeta" ->
                 <<"zeta", "(", "k", "*", "(", "z", "-", "w", ")", ")">>]

dropdown_dict == function_dropdown_dict

\* The texts typed into the entry: a function of z, one without z, and one
\* that names z and parses to 0.
EntryTexts ==
    { <<"sin", "(", "z", ")">>, <<"a", "+", "2">>, <<"z", "-", "z">> }

\* The exception FunctionZtoZ(function_name, abc.z) raises, "" if none, for
\* each text that reaches the window.
FunctionErrors ==
    [function_name \in EntryTexts \cup {function_dropdown_dict[event] :
                                           event \in DOMAIN function_dropdown_dict} |->
        IF ~parse_expr(function_name).ok THEN "SyntaxError"
        ELSE IF ~MainVariableFound("z", SetToSeq(free_symbols(
                                            parse_expr(function_name).node)))
        THEN "VariableNotFoundError"
        ELSE ""]

FunctionError(function_name) == FunctionErrors[function_name]

\* ComplexAnimator.toggle_domain
toggle_domain(self) ==
    [self EXCEPT !.f = IF self._toggle_domain THEN "identity" ELSE "function",
                 !._has_changed = TRUE,
                 !._toggle_domain = ~@]

\* ComplexAnimator.set_function past the call of toggle_domain
SetFunctionFrom(self, function_name, raised) ==
    IF raised # "" THEN [ani |-> self, raised |-> raised]
    ELSE [ani |-> [self EXCEPT !.function = function_name,
                               !._params = <<>>,
                               !._has_changed = TRUE],
          raised |-> ""]

\* ComplexAnimator.set_function
set_function(self, function_name) ==
    SetFunctionFrom(IF ~self._toggle_domain THEN toggle_domain(self) ELSE self,
                    function_name, FunctionError(function_name))

\* ComplexAnimator.set_params
set_params(self, args) == [self EXCEPT !._params = args, !._has_changed = TRUE]

\* ComplexAnimatorQt.set_raw_grid
set_raw_grid(self, g) == [self EXCEPT !._grid = g]

\* self._grid_before_zeta_selected = self._grid.get_copy()
WithSnapshot(self, h) ==
    Returned([self EXCEPT !._grid_before_zeta_selected = Len(h) + 1],
             Append(h, get_copy(h[self._grid])), "")

\* set_grid([-8*pi/5, -pi, 8*pi/5, pi], 250, int((8*pi/5)/s), int((2*pi)/s)):
\* a wider rectangle with fewer points per line than the first grid.
ZetaGridSet(r) ==
    set_grid(r.ani, r.heap,
             <<FromInt(-2), FromInt(-1), FromInt(2), FromInt(1)>>,
             PointsPerLine - 1, 1, 2)

Flagged(r) ==
    Returned([r.ani EXCEPT !._zeta_selected_from_dropdown = TRUE],
             r.heap, r.raised)

\* self._grid = self._grid_before_zeta_selected and the flag cleared
RestoreGrid(self) ==
    [self EXCEPT !._grid = self._grid_before_zeta_selected,
                 !._zeta_selected_from_dropdown = FALSE]

\* The handler continues with the animator and exception of set_function.
FunctionSetFrom(f, h) == Returned(f.ani, h, f.raised)

\* Tk: self.set_function(...), nothing caught
FunctionSet(r, function_name) ==
    FunctionSetFrom(set_function(r.ani, function_name), r.heap)

\* The mutant of App.set_function_dropdown: a repeated "zeta" takes a new
\* snapshot.
set_function_dropdown_resnapshot(self, h, event) ==
    FunctionSet(
        IF event = "zeta"
        THEN Flagged(ZetaGridSet(WithSnapshot(self, h)))
        ELSE IF event # "zeta" /\ self._zeta_selected_from_dropdown
        THEN Returned(RestoreGrid(self), h, "")
        ELSE Returned(self, h, ""),
        function_dropdown_dict[event])

\* Tk App.set_function_dropdown
set_function_dropdown(self, h, event) ==
    FunctionSet(
        IF event = "zeta" /\ ~self._zeta_selected_from_dropdown
        THEN Flagged(ZetaGridSet(WithSnapshot(self, h)))
        ELSE IF event # "zeta" /\ self._zeta_selected_from_dropdown
        THEN Returned(RestoreGrid(self), h, "")
        ELSE Returned(self, h, ""),
        function_dropdown_dict[event])

\* try: ... except VariableNotFoundError: print(...)
CaughtVariableNotFound(f, h) ==
    Returned(f.ani, h,
             IF f.raised = "VariableNotFoundError" THEN "" ELSE f.raised)

\* Tk App.set_function_entry with text in the entry
set_function_entry(self, h, text) ==
    CaughtVariableNotFound(
        set_function(IF self._zeta_selected_from_dropdown
                     THEN RestoreGrid(self) ELSE self, text),
        h)

\* Qt App.set_function_from_text: except Exception: print(e); return
CaughtAll(f, h) == Returned(f.ani, h, "")

set_function_from_text(r, text) == CaughtAll(set_function(r.ani, text), r.heap)

\* Qt App.on_dropdown_changed
on_dropdown_changed(self, h, text) ==
    IF text = "Preset f(z)" THEN Returned(self, h, "")
    ELSE set_function_from_text(
             IF ~self._zeta_selected_from_dropdown /\ text = "zeta"
             THEN ZetaGridSet(WithSnapshot(
                      [self EXCEPT !._zeta_selected_from_dropdown = TRUE], h))
             ELSE IF self._zeta_selected_from_dropdown /\ text # "zeta"
             THEN Returned([set_raw_grid(self, self._grid_before_zeta_selected)
                               EXCEPT !._zeta_selected_from_dropdown = FALSE],
                           h, "")
             ELSE Returned(self, h, ""),
             dropdown_dict[text])

(***************************************************************************)
(* SpecApp: a window of either GUI and the events that reach it.  req      *)
(* records the last event: the handler, its argument, the animator before  *)
(* it, the exception FunctionZtoZ raised in it, and shown, the grid that   *)
(* was in effect when the flag was last set.                               *)
(***************************************************************************)
MaxAppObjects == 5

NoEvent == [path |-> "none", shown |-> NoGrid]

InitApp ==
    /\ call = NoCall
    /\ grid = NoGrid
    /\ copy = NoGrid
    /\ IdleFunc
    /\ IdleZeta
    /\ IdlePlot
    /\ heap = << NewComplexGridArray(<<FromInt(-1), FromInt(-1),
                                       FromInt(1), FromInt(1)>>,
                                     PointsPerLine, 1, 2) >>
    /\ born = heap
    /\ \E gui \in {"tk", "qt"} :
          ani = [kind |-> "App", gui |-> gui,
                 _grid |-> 1, _has_changed |-> TRUE,
                 _toggle_domain |-> TRUE, f |-> "function",
                 function |-> <<"sin", "(", "z", ")">>, _params |-> <<>>,
                 _zeta_selected_from_dropdown |-> FALSE,
                 _grid_before_zeta_selected |-> 0]
    /\ req = NoEvent

\* What an event leaves behind.
Handled(path, event, failed, r) ==
    /\ Len(r.heap) <= MaxAppObjects
    /\ ani' = r.ani
    /\ heap' = r.heap
    /\ born' = born \o SubSeq(r.heap, Len(heap) + 1, Len(r.heap))
    /\ req' = [path |-> path, event |-> event, before |-> ani,
               failed |-> failed, raised |-> r.raised,
               shown |-> IF r.ani._zeta_selected_from_dropdown
                            /\ ~ani._zeta_selected_from_dropdown
                         THEN heap[ani._grid] ELSE req.shown]
    /\ UNCHANGED <<gridVars, funcVars, mcall, zetaVars, plotVars>>

SetFunctionDropdown ==
    /\ ani.gui = "tk"
    /\ \E event \in DOMAIN function_dropdown_dict :
          \E r \in {set_function_dropdown(ani, heap, event)} :
              Handled("set_function_dropdown", event,
                      FunctionError(function_dropdown_dict[event]), r)

OnDropdownChanged ==
    /\ ani.gui = "qt"
    /\ \E text \in DOMAIN dropdown_dict \cup {"Preset f(z)"} :
          \E r \in {on_dropdown_changed(ani, heap, text)} :
              Handled("on_dropdown_changed", text, "", r)

SetFunctionEntry ==
    /\ ani.gui = "tk"
    /\ \E text \in EntryTexts :
          \E r \in {set_function_entry(ani, heap, text)} :
              Handled("set_function_entry", text, FunctionError(text), r)

ToggleDomain ==
    \E r \in {Returned(toggle_domain(ani), heap, "")} :
        Handled("toggle_domain", "", "", r)

\* slider_update: the sliders' values reach set_params
SliderUpdate ==
    \E r \in {Returned(set_params(ani, <<Integer(1)>>), heap, "")} :
        Handled("slider_update", "", "", r)

\* The grid inputs of the window: the popup of Tk, the line edits of Qt.
GridInput ==
    \E horizontal \in 1..2 :
        \E r \in {IF ani.gui = "tk"
                  THEN adjust_grid(ani, heap,
                                   <<FromInt(0), FromInt(0), FromInt(1),
                                     FromInt(1), 1, horizontal>>,
                                   PointsPerLine)
                  ELSE on_line_edit_changed(ani, heap,
                                   <<FromInt(0), FromInt(0), FromInt(1),
                                     FromInt(1), horizontal, 1>>)} :
            Handled("grid_input", "", "", r)

NextApp ==
    \/ SetFunctionDropdown
    \/ OnDropdownChanged
    \/ SetFunctionEntry
    \/ ToggleDomain
    \/ SliderUpdate
    \/ GridInput

SpecApp == InitApp /\ [][NextApp]_vars

(***************************************************************************)
(* Claims on the windows (SpecApp)                                         *)
(***************************************************************************)
Dropdowns == {"set_function_dropdown", "on_dropdown_changed"}

\* Limits, line counts and point density of two grids agree.
SameView(g, b) ==
    /\ get_xlim(g) = get_xlim(b)
    /\ get_ylim(g) = get_ylim(b)
    /\ get_number_of_horizontal_lines(g) = get_number_of_horizontal_lines(b)
    /\ get_number_of_vertical_lines(g) = get_number_of_vertical_lines(b)
    /\ get_number_of_points_per_line(g) = get_number_of_points_per_line(b)

\* C28: in the dropdown handlers of both GUIs, after any sequence of events,
\* the zeta-selected flag is set only while a snapshot grid is stored; a
\* repeated "zeta" selection leaves the snapshot as it is; and the first
\* non-zeta preset selected while the flag is set clears the flag and makes
\* the animator's grid equal in limits, line counts and point density to the
\* grid that was in effect immediately before the flag was set.
C28_ZetaSnapshotRestored ==
    /\ ani._zeta_selected_from_dropdown =>
          /\ ani._grid_before_zeta_selected \in 1..Len(heap)
          /\ SameView(heap[ani._grid_before_zeta_selected], req.shown)
    /\ (/\ req.path \in Dropdowns
        /\ req.event = "zeta"
        /\ req.before._zeta_selected_from_dropdown) =>
          /\ ani._zeta_selected_from_dropdown
          /\ ani._grid_before_zeta_selected =
                req.before._grid_before_zeta_selected
    /\ (/\ req.path \in Dropdowns
        /\ req.event \in DOMAIN dropdown_dict \ {"zeta"}
        /\ req.before._zeta_selected_from_dropdown) =>
          /\ ~ani._zeta_selected_from_dropdown
          /\ SameView(heap[ani._grid], req.shown)

\* In the Qt window a grid was entered, "zeta" selected twice and then
\* another preset: the grid entered is back, not the zeta grid.
C28_Witness ==
    /\ ani.gui = "qt"
    /\ req.path = "on_dropdown_changed"
    /\ req.event = "sine"
    /\ req.before._zeta_selected_from_dropdown
    /\ ~ani._zeta_selected_from_dropdown
    /\ Len(heap) = 4
    /\ ani._grid = 3
    /\ SameView(heap[ani._grid], heap[2])
    /\ ~SameView(heap[ani._grid], heap[1])
    /\ ~SameView(heap[ani._grid], heap[4])

\* The attributes C29 names.
SameAnimatorState(self, before) ==
    /\ self.function = before.function
    /\ self._grid = before._grid
    /\ self._zeta_selected_from_dropdown = before._zeta_selected_from_dropdown
    /\ self._toggle_domain = before._toggle_domain
    /\ self._params = before._params

\* C29: when Tk App.set_function_entry is called with a text whose function
\* construction fails with VariableNotFoundError, the animator's state after
\* the call equals its state before the call: same function object, same
\* grid, same zeta-selected flag, same domain-toggle flag, same parameters.
C29_FailedEntryChangesNothing ==
    (req.path = "set_function_entry" /\ req.failed = "VariableNotFoundError") =>
        SameAnimatorState(ani, req.before)

\* The part of C29 the code keeps: the function and its parameters.
C29_FailedEntryKeepsFunction ==
    (req.path = "set_function_entry" /\ req.failed = "VariableNotFoundError") =>
        /\ ani.function = req.before.function
        /\ ani._params = req.before._params
        /\ req.raised = ""

(***************************************************************************)
(* special_functions.py: EtaFunction and ZetaFunction.  The inputs are     *)
(* arrays of complex numbers with zero imaginary part and a small whole    *)
(* real part, so every intermediate value is real and is kept as a float.  *)
(***************************************************************************)
\* scipy.special.comb(i, j) for whole i, j >= 0.
RECURSIVE comb(_, _)
comb(i, j) ==
    IF j > i THEN 0
    ELSE IF j = 0 \/ j = i THEN 1
    ELSE comb(i - 1, j - 1) + comb(i - 1, j)

\* _binomial_coefficients_table(n), n >= 2: bc[i][j] is row i + 1, column
\* j + 1; the first columns come from comb, the others by symmetry.  (With
\* n = 1 the first loop writes bc[0][1] and raises IndexError; SpecTable runs
\* the loops statement by statement.)
_binomial_coefficients_table(n) ==
    [i \in 1..n |-> [j \in 1..n |->
        IF j > i THEN 0
        ELSE IF j - 1 < ((i - 1) \div 2) + 2 THEN FromInt(comb(i - 1, j - 1))
        ELSE FromInt(comb(i - 1, (i - 1) - (j - 1)))]]

\* ec[i] += bc[j][i]/(2.0**(j + 1.0)) for j = 0..n-1, from row j on.
RECURSIVE EtaCoefficient(_, _, _, _)
EtaCoefficient(bc, i, j, acc) ==
    IF j > Len(bc) THEN acc
    ELSE EtaCoefficient(bc, i, j + 1,
                        FAdd(acc, FDiv(bc[j][i], FromInt(2 ^ j))))

\* The mutation of _eta_coefficients that sums along the rows of the table
\* (bc[i][j] for bc[j][i]).
RECURSIVE EtaCoefficientTransposed(_, _, _, _)
EtaCoefficientTransposed(bc, i, j, acc) ==
    IF j > Len(bc) THEN acc
    ELSE EtaCoefficientTransposed(bc, i, j + 1,
                                  FAdd(acc, FDiv(bc[i][j], FromInt(2 ^ j))))

_eta_coefficients_transposed(bc) ==
    [i \in 1..Len(bc[1]) |-> EtaCoefficientTransposed(bc, i, 1, 0)]

_eta_coefficients(bc) == [i \in 1..Len(bc[1]) |-> EtaCoefficient(bc, i, 1, 0)]

_pm_eta_coefficients(ec) ==
    [i \in 1..Len(ec) |-> IF (i - 1) % 2 = 0 THEN ec[i] ELSE -ec[i]]

\* base**s for a float base and a whole s >= 0, by repeated multiplication.
RECURSIVE FPow(_, _)
FPow(base, e) == IF e = 0 THEN FromInt(1) ELSE FMul(FPow(base, e - 1), base)

\* (k + 1.0)**s with k + 1 = k1, for s holding a whole number >= 0.
TermPower(k1, x) == FPow(FromInt(k1), x \div Unit)

\* 1.0 - 2.0**(1.0 - s) for s holding a whole number >= 0.
ZetaDenominator(x) ==
    IF x <= Unit THEN FSub(FromInt(1), FromInt(2 ^ ((Unit - x) \div Unit)))
    ELSE FSub(FromInt(1), FDiv(FromInt(1), FromInt(2 ^ ((x - Unit) \div Unit))))

\* An element of a result: a finite float, or the inf/NaN a division by
\* zero leaves.
Finite(v) == [finite |-> TRUE, v |-> v]
NonFinite == [finite |-> FALSE, v |-> 0]

ArrayResult(values) == [kind |-> "array", values |-> values]

\* The mutant of Quotient: the division raises when a denominator is zero.
QuotientRaising(summation, s) ==
    IF \E j \in 1..Len(s) : ZetaDenominator(s[j]) = 0
    THEN [kind |-> "ZeroDivisionError", values |-> <<>>]
    ELSE ArrayResult([j \in 1..Len(s) |->
                         Finite(FDiv(summation[j], ZetaDenominator(s[j])))])

\* summation/(1.0 - 2.0**(1.0 - s)), element by element as numpy divides.
Quotient(summation, s) ==
    ArrayResult([j \in 1..Len(s) |->
        IF ZetaDenominator(s[j]) = 0 THEN NonFinite
        ELSE Finite(FDiv(summation[j], ZetaDenominator(s[j])))])

_inner_zeta(s, summation) == Quotient(summation, s)

\* acc + pm[k]/((k + 1.0)**x) for k = k1 - 1 .. m - 1 in that order.
RECURSIVE KernelSum(_, _, _, _)
KernelSum(pm_eta_coefficients, x, k1, acc) ==
    IF k1 > Len(pm_eta_coefficients) THEN acc
    ELSE KernelSum(pm_eta_coefficients, x, k1 + 1,
                   FAdd(acc, FDiv(pm_eta_coefficients[k1], TermPower(k1, x))))

\* The two loops of _zeta_call and _eta_call: what they leave in the array.
Accumulated(s, summation, pm_eta_coefficients) ==
    [j \in 1..Len(s) |-> KernelSum(pm_eta_coefficients, s[j], 1, summation[j])]

\* The mutant of _zeta_call: the coefficients are added without their signs.
_zeta_call_unsigned(s, summation, pm_eta_coefficients) ==
    _inner_zeta(s, Accumulated(s, summation,
                               [i \in 1..Len(pm_eta_coefficients) |->
                                   Abs(pm_eta_coefficients[i])]))

\* _zeta_call and _eta_call as numba compiles them.
_zeta_call(s, summation, pm_eta_coefficients) ==
    _inner_zeta(s, Accumulated(s, summation, pm_eta_coefficients))

_eta_call(s, eta, pm_eta_coefficients) ==
    ArrayResult([j \in 1..Len(s) |->
        Finite(Accumulated(s, eta, pm_eta_coefficients)[j])])

\* Without numba, jit is a function that returns itself: the decorated
\* names _zeta_call, _eta_call and _inner_zeta are all bound to jit, and a
\* call of them returns jit.
jit == [kind |-> "function", values |-> <<>>]

zeros(num) == [j \in 1..num |-> 0]

\* The loop of the reference path of ZetaFunction.__call__:
\* plusminus *= -1; summation += plusminus*ec[k]/((k + 1.0)**s).
RECURSIVE ZetaReferenceSum(_, _, _, _, _)
ZetaReferenceSum(eta_coefficients, x, k1, plusminus, acc) ==
    IF k1 > Len(eta_coefficients) THEN acc
    ELSE ZetaReferenceSum(eta_coefficients, x, k1 + 1, -plusminus,
             FAdd(acc, FDiv(FMul(FromInt(-plusminus), eta_coefficients[k1]),
                            TermPower(k1, x))))

ZetaReference(self, s) ==
    Quotient([j \in 1..Len(s) |->
                 ZetaReferenceSum(self._eta_coefficients, s[j], 1, -1, 0)], s)

\* The reference path of EtaFunction.__call__.
EtaReference(self, s) ==
    ArrayResult([j \in 1..Len(s) |->
        Finite(KernelSum(self._pm_eta_coefficients, s[j], 1, 0))])

\* EtaFunction(n) and ZetaFunction(n) with NUMBA_IMPORTED = imported.  The
\* array _summation is named by who made it: 0 the constructor, t the call
\* of thread t.
NewEtaFunction(n, imported) ==
    [kind |-> "EtaFunction", n |-> n,
     _numba_imported |-> imported,
     _pm_eta_coefficients |->
         _pm_eta_coefficients(_eta_coefficients(_binomial_coefficients_table(n)))]

NewZetaFunction(n, imported) ==
    [kind |-> "ZetaFunction", n |-> n,
     _numba_imported |-> imported,
     _eta_coefficients |-> _eta_coefficients(_binomial_coefficients_table(n)),
     _pm_eta_coefficients |->
         _pm_eta_coefficients(_eta_coefficients(_binomial_coefficients_table(n))),
     _summation |-> 0,
     _len |-> 0]

\* The mutant of toggle_use_numba: the signed table is rebuilt without signs.
toggle_use_numba_rebuilding(self) ==
    [self EXCEPT !._numba_imported = ~@,
                 !._pm_eta_coefficients =
                     [i \in 1..Len(@) |-> Abs(@[i])]]

toggle_use_numba(self) == [self EXCEPT !._numba_imported = ~@]

\* What the reference path returns for s on this engine.
Reference(self, s) ==
    IF self.kind = "ZetaFunction" THEN ZetaReference(self, s)
    ELSE EtaReference(self, s)

\* What the branch taken under _numba_imported returns for s when it works
\* on a fresh array of zeros.
Accelerated(self, s, imported) ==
    IF ~imported THEN jit
    ELSE IF self.kind = "ZetaFunction"
    THEN _zeta_call(s, zeros(Len(s)), self._pm_eta_coefficients)
    ELSE _eta_call(s, zeros(Len(s)), self._pm_eta_coefficients)

(***************************************************************************)
(* SpecZeta: one engine and two threads that call it once each.  A call    *)
(* enters (reads the flag; the accelerated branch of ZetaFunction stores a *)
(* new array in self._summation) and later finishes (the accelerated       *)
(* branch reads self._summation and runs the kernel on that array).  The   *)
(* kernel runs in one step; finer interleavings only add outcomes.         *)
(***************************************************************************)
MaxTerms == 3
MaxInput == 2
MaxInputLen == 2

Threads == {1, 2}
InputValues == {FromInt(i) : i \in 1..MaxInput}
Inputs == UNION {[1..len -> InputValues] : len \in 1..MaxInputLen}

NoValue == [kind |-> "none", values |-> <<>>]
Idle == [pc |-> "idle", s |-> <<>>, path |-> "", array |-> <<>>,
         alone |-> TRUE, result |-> NoValue]

InitZeta ==
    /\ call = NoCall
    /\ grid = NoGrid
    /\ copy = NoGrid
    /\ IdleFunc
    /\ IdleAnim
    /\ IdlePlot
    /\ numba \in BOOLEAN
    /\ engine = NoEngine
    /\ threads = [t \in Threads |-> Idle]

NewEta ==
    /\ engine.kind = "none"
    /\ \E n \in 2..MaxTerms : engine' = NewEtaFunction(n, numba)
    /\ UNCHANGED <<numba, threads, gridVars, funcVars, mcall, animVars, plotVars>>

NewZeta ==
    /\ engine.kind = "none"
    /\ \E n \in 2..MaxTerms : engine' = NewZetaFunction(n, numba)
    /\ UNCHANGED <<numba, threads, gridVars, funcVars, mcall, animVars, plotVars>>

ToggleUseNumba ==
    /\ engine.kind # "none"
    /\ engine' = toggle_use_numba(engine)
    /\ UNCHANGED <<numba, threads, gridVars, funcVars, mcall, animVars, plotVars>>

Running(t) == threads[t].pc = "entered"

\* Thread t calls the engine with s: the flag is read and, on the
\* accelerated branch of ZetaFunction, self._summation is set to new zeros.
Enter(t) ==
    /\ engine.kind # "none"
    /\ threads[t].pc = "idle"
    /\ \E s \in Inputs :
          threads' = [u \in Threads |->
              IF u = t
              THEN [pc |-> "entered", s |-> s,
                    path |-> IF engine._numba_imported THEN "accelerated"
                                                       ELSE "reference",
                    array |-> IF engine._numba_imported THEN zeros(Len(s))
                                                        ELSE <<>>,
                    alone |-> \A v \in Threads \ {t} : ~Running(v),
                    result |-> NoValue]
              ELSE IF Running(u) THEN [threads[u] EXCEPT !.alone = FALSE]
              ELSE threads[u]]
    /\ engine' = IF engine.kind = "ZetaFunction" /\ engine._numba_imported
                 THEN [engine EXCEPT !._summation = t]
                 ELSE engine
    /\ UNCHANGED <<numba, gridVars, funcVars, mcall, animVars, plotVars>>

\* The array the kernel of thread t works on: its own zeros in EtaFunction,
\* whatever self._summation names in ZetaFunction.
KernelArray(t) ==
    IF engine.kind = "ZetaFunction" THEN engine._summation ELSE t

\* The call of thread t runs to its return.
Finish(t) ==
    /\ Running(t)
    /\ threads' =
          IF threads[t].path = "reference"
          THEN [threads EXCEPT ![t].pc = "done",
                               ![t].result = Reference(engine, threads[t].s)]
          ELSE IF ~numba
          THEN [threads EXCEPT ![t].pc = "done", ![t].result = jit]
          ELSE IF Len(threads[KernelArray(t)].array) # Len(threads[t].s)
          THEN [threads EXCEPT ![t].pc = "done",
                               ![t].result = [kind |-> "undefined",
                                              values |-> <<>>]]
          ELSE [threads EXCEPT
                   ![KernelArray(t)].array =
                       Accumulated(threads[t].s, threads[KernelArray(t)].array,
                                   engine._pm_eta_coefficients),
                   ![t].pc = "done",
                   ![t].result =
                       IF engine.kind = "ZetaFunction"
                       THEN _zeta_call(threads[t].s,
                                       threads[KernelArray(t)].array,
                                       engine._pm_eta_coefficients)
                       ELSE _eta_call(threads[t].s,
                                      threads[KernelArray(t)].array,
                                      engine._pm_eta_coefficients)]
    /\ UNCHANGED <<numba, engine, gridVars, funcVars, mcall, animVars, plotVars>>

NextZeta ==
    \/ NewEta
    \/ NewZeta
    \/ ToggleUseNumba
    \/ \E t \in Threads : Enter(t)
    \/ \E t \in Threads : Finish(t)

SpecZeta == InitZeta /\ [][NextZeta]_vars

(***************************************************************************)
(* Claims on EtaFunction and ZetaFunction (SpecZeta)                       *)
(***************************************************************************)
CallReturned(t) == threads[t].pc = "done"

\* C14: when numba is not importable, every evaluation call on an
\* EtaFunction or ZetaFunction, after any sequence of toggle_use_numba()
\* calls, runs the reference loop and returns the values of the reference
\* path.
C14_ReferenceWithoutNumba ==
    ~numba =>
        \A t \in Threads :
            CallReturned(t) =>
                /\ threads[t].path = "reference"
                /\ threads[t].result = Reference(engine, threads[t].s)

\* C15: two evaluation calls on the same engine, interleaved in any way,
\* each return what the same call returns when it runs alone.
C15_InterleavedCallsIndependent ==
    \A t \in Threads :
        CallReturned(t) =>
            threads[t].result =
                IF threads[t].path = "reference"
                THEN Reference(engine, threads[t].s)
                ELSE Accelerated(engine, threads[t].s, numba)

\* The part of C15 that holds: the calls of an EtaFunction keep to locals.
C15_EtaCallsIndependent ==
    engine.kind = "EtaFunction" => C15_InterleavedCallsIndependent

\* The coefficient arrays an engine of this kind and size is built with.
BuiltCoefficients(kind, n) ==
    IF kind = "ZetaFunction"
    THEN << _eta_coefficients(_binomial_coefficients_table(n)),
            _pm_eta_coefficients(_eta_coefficients(_binomial_coefficients_table(n))) >>
    ELSE << _pm_eta_coefficients(_eta_coefficients(_binomial_coefficients_table(n))) >>

StoredCoefficients(self) ==
    IF self.kind = "ZetaFunction"
    THEN << self._eta_coefficients, self._pm_eta_coefficients >>
    ELSE << self._pm_eta_coefficients >>

\* C16: after any sequence of toggle_use_numba() and evaluation calls the
\* stored coefficient arrays are the ones the constructor computed, and a
\* toggle changes the path-selection flag and nothing else.
C16_CoefficientsNeverRecomputed ==
    [][engine'.kind # "none" =>
          /\ StoredCoefficients(engine')
                 = BuiltCoefficients(engine'.kind, engine'.n)
          /\ (engine.kind # "none"
                /\ engine'._numba_imported # engine._numba_imported) =>
                 /\ engine' = [engine EXCEPT !._numba_imported = ~@]
                 /\ threads' = threads]_vars

\* A ZetaFunction whose flag was toggled and on which a call has returned.
C16_Witness ==
    /\ engine.kind = "ZetaFunction"
    /\ engine._numba_imported # numba
    /\ \E t \in Threads : CallReturned(t) /\ threads[t].path = "reference"
    /\ \E t \in Threads : CallReturned(t) /\ threads[t].path = "accelerated"

\* C17: for the same engine and the same input array the accelerated path
\* returns what the reference path returns: both add the terms
\* (-1)^k * eta_coefficients[k] / (k+1)^s for k = 0..n-1 in that order,
\* from the table built at construction, and ZetaFunction divides the sum by
\* 1 - 2^(1-s) on both paths.  Stated of calls that ran alone with numba
\* importable.
C17_PathsAgree ==
    numba =>
        \A t \in Threads :
            (CallReturned(t) /\ threads[t].alone) =>
                threads[t].result = Reference(engine, threads[t].s)

\* A call of a ZetaFunction has returned from the accelerated path alone,
\* with two elements of which one is not at the singularity.
C17_Witness ==
    /\ numba
    /\ engine.kind = "ZetaFunction"
    /\ \E t \in Threads :
          /\ CallReturned(t)
          /\ threads[t].alone
          /\ threads[t].path = "accelerated"
          /\ Len(threads[t].s) = 2
          /\ threads[t].s[1] # FromInt(1)
          /\ threads[t].result.kind = "array"

\* The positions of s that are not at s = 1, in order.
RECURSIVE AwayFromOne(_, _)
AwayFromOne(s, j) ==
    IF j > Len(s) THEN <<>>
    ELSE IF s[j] = FromInt(1) THEN AwayFromOne(s, j + 1)
    ELSE <<j>> \o AwayFromOne(s, j + 1)

Pick(a, positions) == [i \in 1..Len(positions) |-> a[positions[i]]]

\* What the path of a returned call returns for another input.
SamePath(t, s) ==
    IF threads[t].path = "reference" THEN Reference(engine, s)
    ELSE Accelerated(engine, s, numba)

\* C18: a ZetaFunction call on an array that contains s = 1 raises no error
\* on either path: the element at s = 1 is inf/NaN and every other element
\* has the value it has when s = 1 is absent from the array.  Stated of
\* calls that ran alone, the accelerated path with numba importable.
C18_SingularityStaysLocal ==
    \A t \in Threads :
        (/\ engine.kind = "ZetaFunction"
         /\ CallReturned(t)
         /\ threads[t].alone
         /\ (threads[t].path = "reference" \/ numba)) =>
            /\ threads[t].result.kind = "array"
            /\ Len(threads[t].result.values) = Len(threads[t].s)
            /\ \A j \in 1..Len(threads[t].s) :
                  threads[t].s[j] = FromInt(1) =>
                      ~threads[t].result.values[j].finite
            /\ Pick(threads[t].result.values, AwayFromOne(threads[t].s, 1))
                   = SamePath(t, Pick(threads[t].s,
                                      AwayFromOne(threads[t].s, 1))).values

\* Calls on an array holding s = 1 and another element have returned from
\* both paths.
C18_Witness ==
    /\ engine.kind = "ZetaFunction"
    /\ numba
    /\ \E t \in Threads, u \in Threads :
          /\ CallReturned(t) /\ threads[t].alone
          /\ threads[t].path = "reference"
          /\ threads[t].s = <<FromInt(1), FromInt(2)>>
          /\ CallReturned(u) /\ threads[u].alone
          /\ threads[u].path = "accelerated"
          /\ threads[u].s = <<FromInt(2), FromInt(1)>>

\* The sum over j = from..n-1 of C(j, i) / 2^(j+1), added in that order to acc.
RECURSIVE BinomialSum(_, _, _, _)
BinomialSum(i, from, n, acc) ==
    IF from >= n THEN acc
    ELSE BinomialSum(i, from + 1, n,
                     FAdd(acc, FDiv(FromInt(Cardinality(
                                        {T \in SUBSET (1..from) :
                                            Cardinality(T) = i})),
                                    FromInt(2 ^ (from + 1)))))

\* C23: for an engine built with n the stored sign-alternated coefficients are
\* pm[i] = (-1)^i * (sum over j in 0..n-1 of C(j, i) / 2^(j+1)) for every i in
\* 0..n-1, and the table has exactly n entries.
C23_SignedCoefficients ==
    (engine.kind # "none") =>
        /\ Len(engine._pm_eta_coefficients) = engine.n
        /\ \A i \in 0..(engine.n - 1) :
              engine._pm_eta_coefficients[i + 1] =
                  IF i % 2 = 0 THEN BinomialSum(i, 0, engine.n, 0)
                  ELSE -BinomialSum(i, 0, engine.n, 0)

\* An engine of three terms holds a positive, a negative and a positive
\* coefficient, after a call and a toggle.
C23_Witness ==
    /\ engine.kind # "none"
    /\ engine.n = 3
    /\ engine._pm_eta_coefficients[1] > 0
    /\ engine._pm_eta_coefficients[2] < 0
    /\ engine._pm_eta_coefficients[3] > 0
    /\ engine._numba_imported # numba
    /\ \E t \in Threads : CallReturned(t)

(***************************************************************************)
(* More claims on multiplies_var (SpecMult)                                *)
(***************************************************************************)
\* The expression of the call, expanded, and its main variable and candidate.
CallExpr == expand(parse_expr(mcall.text).node)
CallMain == Symbol(mcall.main_var)
CallCandidate == Symbol(mcall.arb_var)

\* f is the candidate p or a power whose base is p.
PowerOf(f, p) == f = p \/ (f.op = "Pow" /\ Base(f) = p)

\* C25: in step 2 of multiplies_var, on the expression and on every
\* subexpression, a sibling factor f of a term t that contains the main
\* variable makes the test true only if f is exactly the candidate p or a
\* power whose base is p, and the product t*f occurs in the expression.
C25_OnlyPowersOfCandidate ==
    (mcall.state = "returned") =>
        \A e \in Subnodes(CallExpr) :
            _multiplies_var_flat(CallMain, CallCandidate, e) =>
                \E t \in Args(e), f \in Args(e) :
                    /\ has(t, CallMain)
                    /\ PowerOf(f, CallCandidate)
                    /\ has(e, MkMul(<<t, f>>))

\* C27: multiplies_var(m, p, E) returns false for every expression E in which
\* the candidate p does not occur and for every expression E in which the
\* main variable m does not occur.
C27_FalseWithoutSymbol ==
    (/\ mcall.state = "returned"
     /\ \/ mcall.arb_var \notin free_symbols(parse_expr(mcall.text).node)
        \/ mcall.main_var \notin free_symbols(parse_expr(mcall.text).node)) =>
        ~mcall.result

\* x*a**k with main variable x has returned false for the absent candidate b.
C27_Witness ==
    /\ mcall.state = "returned"
    /\ mcall.text = <<"x", "*", "a", "**", "k">>
    /\ mcall.main_var = "x"
    /\ mcall.arb_var = "b"
    /\ ~mcall.result

(***************************************************************************)
(* SpecTable: one call of _binomial_coefficients_table(n), statement by    *)
(* statement.  bc[i][j] is row i + 1, column j + 1.  written holds the     *)
(* entries assigned so far and stale records a symmetry read of an entry   *)
(* that was not assigned yet (it reads the 0.0 of np.zeros).               *)
(***************************************************************************)
MaxTableSize == 7

TableCall(n) ==
    [fn |-> "_binomial_coefficients_table", n |-> n,
     pc |-> "comb", i |-> 0, j |-> 0,
     bc |-> [r \in 1..n |-> [c \in 1..n |-> 0]],
     written |-> {}, stale |-> FALSE]

InitTable ==
    /\ \E n \in 1..MaxTableSize : call = TableCall(n)
    /\ grid = NoGrid
    /\ copy = NoGrid
    /\ IdleFunc
    /\ IdleAnim
    /\ IdleZeta
    /\ IdlePlot

\* for j in range(i//2 + 2): bc[i][j] = spec.comb(i, j)
CombStep ==
    /\ call.pc = "comb"
    /\ call.j < call.i \div 2 + 2
    /\ call' = IF call.j >= call.n
               THEN [call EXCEPT !.pc = "IndexError"]
               ELSE [call EXCEPT
                        !.bc[call.i + 1][call.j + 1] =
                            FromInt(comb(call.i, call.j)),
                        !.written = @ \cup {<<call.i, call.j>>},
                        !.j = @ + 1]
    /\ UNCHANGED <<grid, copy, funcVars, mcall, restVars>>

\* The first loop is exhausted: the second starts at j = i//2 + 2.
CombExit ==
    /\ call.pc = "comb"
    /\ call.j = call.i \div 2 + 2
    /\ call' = [call EXCEPT !.pc = "symmetry"]
    /\ UNCHANGED <<grid, copy, funcVars, mcall, restVars>>

\* for j in range(i//2 + 2, i + 1): bc[i][j] = bc[i][i-j]
SymmetryStep ==
    /\ call.pc = "symmetry"
    /\ call.j <= call.i
    /\ call' = [call EXCEPT
                   !.bc[call.i + 1][call.j + 1] =
                       call.bc[call.i + 1][call.i - call.j + 1],
                   !.stale = @ \/ <<call.i, call.i - call.j>> \notin call.written,
                   !.written = @ \cup {<<call.i, call.j>>},
                   !.j = @ + 1]
    /\ UNCHANGED <<grid, copy, funcVars, mcall, restVars>>

\* The second loop is exhausted: the next row, or return bc.
SymmetryExit ==
    /\ call.pc = "symmetry"
    /\ call.j > call.i
    /\ call' = IF call.i + 1 < call.n
               THEN [call EXCEPT !.pc = "comb", !.i = @ + 1, !.j = 0]
               ELSE [call EXCEPT !.pc = "returned"]
    /\ UNCHANGED <<grid, copy, funcVars, mcall, restVars>>

NextTable == CombStep \/ CombExit \/ SymmetryStep \/ SymmetryExit

SpecTable == InitTable /\ [][NextTable]_vars

(***************************************************************************)
(* Claims on _binomial_coefficients_table (SpecTable)                      *)
(***************************************************************************)
\* The binomial coefficient C(i, j): the number of j-element subsets of an
\* i-element set (0 when j > i).
Choose(i, j) == Cardinality({S \in SUBSET (1..i) : Cardinality(S) = j})

TableIsBinomial ==
    /\ Len(call.bc) = call.n
    /\ \A i \in 0..(call.n - 1) :
          /\ Len(call.bc[i + 1]) = call.n
          /\ \A j \in 0..(call.n - 1) :
                call.bc[i + 1][j + 1] = FromInt(Choose(i, j))

\* C22: for every n >= 1, _binomial_coefficients_table(n) completes without
\* error and returns an n-by-n table with B[i][j] = C(i, j) for 0 <= i, j < n
\* (0 when j > i), and every entry filled through B[i][j] = B[i][i-j] reads
\* an entry of the same row that was already computed.
C22_TableForEveryN ==
    /\ call.pc # "IndexError"
    /\ ~call.stale
    /\ (call.pc = "returned") => TableIsBinomial

\* The same for n >= 2, together with the table the engines are built from.
C22_TableFromTwo ==
    (call.n >= 2) =>
        /\ call.pc # "IndexError"
        /\ ~call.stale
        /\ (call.pc = "returned") =>
              /\ TableIsBinomial
              /\ call.bc = _binomial_coefficients_table(call.n)

====
